---- MODULE Spec2Model ----
\* octl: the setup wizard's orchestrator (src/index.ts), its shared context
\* (src/types.ts), the settings file, and the steps it sequences.
\*
\* A state of the model is a suspension point of the single-threaded program:
\* an interactive prompt, an awaited HTTP or subprocess call, or a position of
\* the orchestrator's step loop.  An action resumes the program from one
\* suspension point and runs its synchronous code up to the next one.
EXTENDS Integers, Sequences, FiniteSets, TLC

VARIABLES
    pc,            \* orchestrator position / suspension point of main()
    ctx,           \* the in-memory SetupContext
    activeCtx,     \* TRUE once the module-level activeCtx refers to ctx
    disk,          \* the settings file octl.json
    selectedIds,   \* the answer of the step menu, in the order it was given
    i,             \* index of the step loop (1-based) into selectedSteps
    sp,            \* suspension point inside the running step ("" outside)
    loc,           \* local variables of the running step
    exitCode,      \* process exit status, -1 while the process runs
    exitReason,    \* why the process ended (history)
    startLog,      \* ids of the steps whose first attempt has started (history)
    settled,       \* per loop index: "ok" | "abandoned" once the step is left (history)
    running,       \* the set of step ids whose run() has not yet settled (history)
    attemptCtx,    \* ctx as it was when the current step attempt started (history)
    thrownCtx,     \* ctx as it was when the step last threw (history)
    env            \* what is outside the process: the local tools, the providers' accounts

vars == <<pc, ctx, activeCtx, disk, selectedIds, i, sp, loc, exitCode, exitReason,
          startLog, settled, running, attemptCtx, thrownCtx, env>>

\* ---------------------------------------------------------------------------
\* Bounds of the model
\* ---------------------------------------------------------------------------

\* At most this many steps are ticked in the menu.
MaxSelected == 2

\* ---------------------------------------------------------------------------
\* Sequence helpers
\* ---------------------------------------------------------------------------

Range(s) == {s[k] : k \in 1..Len(s)}

\* ---------------------------------------------------------------------------
\* The step catalog (index.ts STEPS)
\* ---------------------------------------------------------------------------

STEPS ==
    << [id |-> "resend",             needs |-> {"domain"}],
       [id |-> "neon",               needs |-> {"domain"}],
       [id |-> "droplet",            needs |-> {}],
       [id |-> "github-env",         needs |-> {}],
       [id |-> "github-secrets",     needs |-> {"domain", "adminPassword"}],
       [id |-> "github-vars",        needs |-> {"domain"}],
       [id |-> "app-deploy-secrets", needs |-> {}] >>

StepIds == {STEPS[k].id : k \in 1..Len(STEPS)}

\* The position of a step in the catalog.
CatalogIndex(id) == CHOOSE k \in 1..Len(STEPS) : STEPS[k].id = id

\* STEPS.filter((s) => selectedIds.includes(s.id)) mapped to the ids
SelectedStepsTickOrder(ids) == ids
SelectedSteps(ids) ==
    LET F[k \in 0..Len(STEPS)] ==
            IF k = 0 THEN <<>>
            ELSE IF STEPS[k].id \in Range(ids) THEN Append(F[k - 1], STEPS[k].id)
            ELSE F[k - 1]
    IN  F[Len(STEPS)]

\* new Set(selectedSteps.flatMap((s) => s.needs))
AllNeeds(ids) == UNION {STEPS[k].needs : k \in {n \in 1..Len(STEPS) : STEPS[n].id \in Range(ids)}}

\* selectedIds.some((id) => id.startsWith("github-") || id === "app-deploy-secrets")
NeedsRepo(ids) ==
    Range(ids) \cap {"github-env", "github-secrets", "github-vars", "app-deploy-secrets"} # {}
NeedsResendKey(ids) == Range(ids) \cap {"resend", "github-secrets"} # {}
NeedsNeonToken(ids) == Range(ids) \cap {"neon", "github-secrets"} # {}
NeedsDoToken(ids) == "droplet" \in Range(ids)
NeedsGhcrPat(ids) == Range(ids) \cap {"github-secrets", "app-deploy-secrets"} # {}

\* ---------------------------------------------------------------------------
\* Secret derivation (lib/crypto.ts)
\* ---------------------------------------------------------------------------

SALT_PREFIX == "olympusoss"

\* pbkdf2Sync(passphrase, salt, ITERATIONS, bytes, DIGEST).toString("hex"):
\* the digest is kept symbolic (the key and salt it was computed from), its
\* hexadecimal serialisation has two characters per byte.
deriveFullLength(passphrase, name, bytes) ==
    [key |-> passphrase, salt |-> <<SALT_PREFIX, name>>, hexLen |-> 64]
deriveSecret(passphrase, name, bytes) ==
    [key |-> passphrase, salt |-> <<SALT_PREFIX, name>>, hexLen |-> 2 * bytes]

CookieBytes == 32
CipherBytes == 16

BaseSecretNames ==
    {"CIAM_KRATOS_SECRET_COOKIE", "CIAM_KRATOS_SECRET_CIPHER",
     "IAM_KRATOS_SECRET_COOKIE", "IAM_KRATOS_SECRET_CIPHER",
     "CIAM_HYDRA_SECRET_SYSTEM", "CIAM_HYDRA_PAIRWISE_SALT",
     "IAM_HYDRA_SECRET_SYSTEM", "IAM_HYDRA_PAIRWISE_SALT",
     "ATHENA_CIAM_OAUTH_CLIENT_SECRET", "ATHENA_IAM_OAUTH_CLIENT_SECRET",
     "PGADMIN_OAUTH_CLIENT_SECRET"}
SiteSecretNames == {"SITE_CIAM_CLIENT_SECRET", "SITE_IAM_CLIENT_SECRET"}
CipherSecretNames == {"CIAM_KRATOS_SECRET_CIPHER", "IAM_KRATOS_SECRET_CIPHER"}

deriveAllWithSite(passphrase, includeSite) ==
    [n \in BaseSecretNames \cup SiteSecretNames |->
        deriveSecret(passphrase, n, IF n \in CipherSecretNames THEN CipherBytes ELSE CookieBytes)]
deriveAllSecrets(passphrase, includeSite) ==
    [n \in BaseSecretNames \cup (IF includeSite THEN SiteSecretNames ELSE {}) |->
        deriveSecret(passphrase, n, IF n \in CipherSecretNames THEN CipherBytes ELSE CookieBytes)]

\* The empty object {} of derivedSecrets / githubSecrets / githubVariables.
EmptyMap == [n \in {} |-> ""]

\* ---------------------------------------------------------------------------
\* The context (types.ts)
\* ---------------------------------------------------------------------------

DefaultSshPort == 22

createEmptyContext ==
    [ selectedSteps     |-> <<>>,
      domain            |-> "",
      passphrase        |-> "",
      adminEmail        |-> "",
      adminPassword     |-> "",
      includeSite       |-> FALSE,
      dropletIp         |-> "",
      dropletName       |-> "",
      reservedIp        |-> "",
      sshPrivateKeyPath |-> "",
      sshPublicKeyPath  |-> "",
      sshUser           |-> "root",
      resendApiKey      |-> "",
      resendDnsRecords  |-> <<>>,
      neonApiToken      |-> "",
      neonOrgId         |-> "",
      neonProjectId     |-> "",
      neonDsns          |-> [ciamKratos |-> "", ciamHydra |-> "", iamKratos |-> "", iamHydra |-> ""],
      ghcrPat           |-> "",
      ghcrUsername      |-> "",
      orgDispatchToken  |-> "",
      repoOwner         |-> "",
      repoName          |-> "",
      doToken           |-> "",
      sshPort           |-> DefaultSshPort,
      deployPath        |-> "/opt/olympusoss/prod",
      derivedSecrets    |-> EmptyMap,
      githubSecrets     |-> EmptyMap,
      githubVariables   |-> EmptyMap ]

Keys == DOMAIN createEmptyContext

\* The fields for which typeof ctx[key] === "string".
StringKeys ==
    {"domain", "passphrase", "adminEmail", "adminPassword", "dropletIp", "dropletName",
     "reservedIp", "sshPrivateKeyPath", "sshPublicKeyPath", "sshUser", "resendApiKey",
     "neonApiToken", "neonOrgId", "neonProjectId", "ghcrPat", "ghcrUsername",
     "orgDispatchToken", "repoOwner", "repoName", "doToken", "deployPath"}

\* ---------------------------------------------------------------------------
\* The settings file (index.ts saveSettings / loadPreviousContext)
\* ---------------------------------------------------------------------------

\* A file is absent, unparsable, or a JSON object.  Of a JSON object, data[key]
\* says whether the key holds a value, holds null, or is missing, and v is the
\* value it holds.
Val(v) == [st |-> "val", v |-> v]
NullOf(key) == [st |-> "null", v |-> createEmptyContext[key]]
MissingOf(key) == [st |-> "missing", v |-> createEmptyContext[key]]

\* JSON.stringify(ctx, null, 2): every key of the context is written with its value.
Stringify(c) == [key \in Keys |-> Val(c[key])]

AbsentFile == [kind |-> "absent", data |-> Stringify(createEmptyContext)]
CorruptFile == [kind |-> "corrupt", data |-> Stringify(createEmptyContext)]
JsonFile(data) == [kind |-> "json", data |-> data]

\* writeFileSync(filePath, JSON.stringify(ctx, null, 2))
saveSettings(c) == JsonFile(Stringify(c))

\* What re-reading the file yields: the context it holds, key by key.
FileHolds(f, c) == f.kind = "json" /\ \A key \in Keys : f.data[key] = Val(c[key])

loadPreviousContextAll(c, f) ==
    IF f.kind # "json" THEN c
    ELSE [key \in Keys |-> IF f.data[key].st # "val" THEN c[key] ELSE f.data[key].v]

loadPreviousContext(c, f) ==
    IF f.kind = "absent" THEN c                  \* !existsSync(jsonPath)
    ELSE IF f.kind = "corrupt" THEN c            \* JSON.parse throws: caught, ignored
    ELSE [key \in Keys |->
            LET current == c[key]
                saved   == f.data[key]
            IN  IF saved.st # "val" THEN current
                ELSE IF key \in StringKeys /\ current # "" THEN current
                ELSE IF key = "resendDnsRecords" /\ Len(current) > 0 THEN current
                ELSE IF key = "selectedSteps" THEN current
                ELSE saved.v]

\* ---------------------------------------------------------------------------
\* Values the environment and the user supply
\* ---------------------------------------------------------------------------

\* What a prompt with a default returns: the default kept, or a new value typed.
Answers(default) == IF default = "" THEN {"new"} ELSE {default, "new"}

\* The same for the prompts whose answer the user does not retype when one is
\* offered (admin identity, repository, tokens).
Kept(default) == IF default = "" THEN {"new"} ELSE {default}

OldPassphrase == "p1"
NewPassphrase == "p2"

MxRecord == [type |-> "MX", name |-> "send", value |-> "feedback-smtp", priority |-> 10]
ResendRecordSets == {<<>>, <<MxRecord>>}

\* Settings files a run can find at start: none, an unparsable one, the file a
\* finished run of the email and droplet steps left, and a JSON object in which
\* some keys are null or missing.
PrevRun ==
    saveSettings([createEmptyContext EXCEPT
        !.selectedSteps = <<"resend", "droplet">>, !.domain = "old", !.passphrase = OldPassphrase,
        !.includeSite = TRUE, !.resendApiKey = "old", !.resendDnsRecords = <<MxRecord>>,
        !.doToken = "old", !.sshUser = "deploy", !.dropletName = "olympusoss-prod",
        !.dropletIp = "ip_r", !.reservedIp = "ip_r",
        !.sshPrivateKeyPath = "keyPath", !.sshPublicKeyPath = "keyPath.pub",
        !.derivedSecrets = deriveAllSecrets(OldPassphrase, TRUE)])
PartialFile ==
    JsonFile([key \in Keys |->
        IF key = "domain" THEN Val("old")
        ELSE IF key = "selectedSteps" THEN Val(<<"neon">>)
        ELSE IF key \in {"passphrase", "resendDnsRecords", "sshUser"} THEN NullOf(key)
        ELSE MissingOf(key)])
PrevFiles == {AbsentFile, CorruptFile, PrevRun, PartialFile}

\* ---------------------------------------------------------------------------
\* The steps (src/steps/*.ts).  XRun(p, c, l) is the set of ways step X goes on
\* from its suspension point p with context c and locals l: each a next
\* suspension point (or "returned" / "threw") with the context and locals then.
\* ---------------------------------------------------------------------------

InitLoc == [dropletId |-> 0, isNew |-> FALSE, projectId |-> "", existing |-> {}, db |-> 0, attempt |-> 0,
            confirmPass |-> ""]

R(p, c, l) == [sp |-> p, ctx |-> c, loc |-> l]

\* The suspension points that are interactive prompts.
StepPrompts ==
    {"resend.keyQ", "neon.orgQ", "neon.projectQ",
     "droplet.reuseKeyQ", "droplet.dropletQ", "droplet.modeQ", "droplet.newQ", "droplet.ipQ",
     "droplet.nameQ", "droplet.reservedIpQ", "droplet.sshUserQ",
     "env.repoQ", "secrets.orgQ", "secrets.sshKeyQ", "vars.orgQ", "app.orgQ", "app.patQ"}

\* --- resend.ts run ---------------------------------------------------------
resendRun(p, c, l) ==
    CASE p = "begin" ->
            IF c.resendApiKey = "" THEN {R("resend.keyQ", c, l)} ELSE {R("resend.list", c, l)}
      [] p = "resend.keyQ" -> {R("resend.list", [c EXCEPT !.resendApiKey = "new"], l)}
      [] p = "resend.list" ->                      \* GET /domains
            {R("threw", c, l), R("resend.get", c, l), R("resend.create", c, l)}
      [] p \in {"resend.get", "resend.create"} ->  \* GET /domains/:id, POST /domains
            {R("threw", c, l)} \cup
            {R("returned", [c EXCEPT !.resendDnsRecords = recs], l) : recs \in ResendRecordSets}
      [] OTHER -> {}

\* --- neon.ts run -----------------------------------------------------------
DB_NAMES == <<"ciam_kratos", "ciam_hydra", "iam_kratos", "iam_hydra">>
MaxDbAttempts == 5

toDsnKey(dbName) ==
    CASE dbName = "ciam_kratos" -> "ciamKratos"
      [] dbName = "ciam_hydra"  -> "ciamHydra"
      [] dbName = "iam_kratos"  -> "iamKratos"
      [] dbName = "iam_hydra"   -> "iamHydra"

Dsn(dbName) == "postgresql://role:pw@host/" \o dbName \o "?sslmode=require"

\* The body of the database loop from database k on, up to the next creation
\* call: existing databases are skipped and their connection strings stored.
RECURSIVE neonDbLoop(_, _, _)
neonDbLoop(k, c, l) ==
    IF k > Len(DB_NAMES)
    THEN R("returned", [c EXCEPT !.neonProjectId = l.projectId], l)
    ELSE IF DB_NAMES[k] \in l.existing
         THEN neonDbLoop(k + 1, [c EXCEPT !.neonDsns[toDsnKey(DB_NAMES[k])] = Dsn(DB_NAMES[k])], l)
         ELSE R("neon.createDb", c, [l EXCEPT !.db = k, !.attempt = 0])

\* The answers to the creation call: 2xx, a body with "conflicting
\* operations", any other failure.
DbAnswers == {"ok", "conflict", "error"}

\* Line 225: a conflict is waited out unless this was the last attempt.
retryOnce(attempt) == attempt < 1
mayRetry(attempt) == attempt < MaxDbAttempts - 1

\* A loop that waits out every failed call while attempts are left.
createDbRetriesAll(answer, c, l) ==
    CASE answer = "ok" ->
            neonDbLoop(l.db + 1,
                       [c EXCEPT !.neonDsns[toDsnKey(DB_NAMES[l.db])] = Dsn(DB_NAMES[l.db])], l)
      [] answer # "ok" /\ mayRetry(l.attempt) ->
            R("neon.createDb", c, [l EXCEPT !.attempt = l.attempt + 1])
      [] OTHER -> R("threw", c, l)

\* Lines 213-235: one creation call for database l.db, after l.attempt calls
\* that met a conflict, and what the loop does with its answer.
createDbResult(answer, c, l) ==
    CASE answer = "ok" ->
            neonDbLoop(l.db + 1,
                       [c EXCEPT !.neonDsns[toDsnKey(DB_NAMES[l.db])] = Dsn(DB_NAMES[l.db])], l)
      [] answer = "conflict" /\ mayRetry(l.attempt) ->
            R("neon.createDb", c, [l EXCEPT !.attempt = l.attempt + 1])
      [] OTHER -> R("threw", c, l)

neonRun(p, c, l) ==
    CASE p = "begin" -> {R("neon.org", c, l)}
      [] p = "neon.org" ->                         \* resolveOrgId
            {R("threw", c, l), R("neon.projects", c, l),
             R("neon.projects", [c EXCEPT !.neonOrgId = "org1"], l), R("neon.orgQ", c, l)}
      [] p = "neon.orgQ" -> {R("neon.projects", [c EXCEPT !.neonOrgId = "org1"], l)}
      [] p = "neon.projects" ->                    \* GET /projects
            {R("threw", c, l), R("neon.create", c, l), R("neon.projectQ", c, l)}
      [] p = "neon.projectQ" ->
            {R("neon.fetch", c, [l EXCEPT !.projectId = "proj1"]), R("neon.create", c, l)}
      [] p = "neon.fetch" ->                       \* project, endpoints, roles, password
            {R("threw", c, l), R("neon.dbs", c, l)}
      [] p = "neon.create" ->                      \* POST /projects
            {R("threw", c, l),
             R("neon.wait", [c EXCEPT !.neonProjectId = "proj2"], [l EXCEPT !.projectId = "proj2"])}
      [] p = "neon.wait" ->                        \* waitForProject, then the connection-info check
            {R("threw", c, l), R("neon.dbs", c, l)}
      [] p = "neon.dbs" ->                         \* GET databases
            {R("threw", c, l)} \cup
            {neonDbLoop(1, c, [l EXCEPT !.existing = e]) : e \in {{}, Range(DB_NAMES)}}
      [] p = "neon.createDb" ->                    \* POST databases
            {createDbResult(answer, c, l) : answer \in DbAnswers}
      [] OTHER -> {}

\* --- droplet.ts run --------------------------------------------------------
WithKeyPaths(c) == [c EXCEPT !.sshPrivateKeyPath = "keyPath", !.sshPublicKeyPath = "keyPath.pub"]

\* run(), after the droplet has been chosen, created or entered: the deploy key
\* is registered when there is a public key path.
dropletAfterChoice(c, l) ==
    IF c.sshPublicKeyPath # "" THEN R("droplet.addSshKey", c, l)
    ELSE IF l.dropletId # 0 THEN R("droplet.firewall", c, l)
    ELSE R("droplet.sshUserQ", c, l)

\* verifyDeployKey: returns at once without a private key path or an IP.
dropletVerify(c, l) ==
    IF c.sshPrivateKeyPath = "" \/ c.dropletIp = "" THEN R("returned", c, l)
    ELSE R("droplet.verifyKey", c, l)

\* run(), after the SSH user prompt: copySshKey for an existing droplet, then verifyDeployKey.
dropletAfterUser(c, l) ==
    IF ~l.isNew /\ c.sshPublicKeyPath # "" /\ c.dropletIp # "" THEN R("droplet.copyKey", c, l)
    ELSE dropletVerify(c, l)

dropletRun(p, c, l) ==
    CASE p = "begin" ->                            \* generateSshKey: existsSync(keyPath)
            {R("droplet.reuseKeyQ", c, l), R("droplet.keygen", c, l)}
      [] p = "droplet.reuseKeyQ" ->
            {R("droplet.listDroplets", WithKeyPaths(c), l), R("droplet.keygen", c, l)}
      [] p = "droplet.keygen" ->                   \* ssh-keygen
            {R("threw", c, l), R("droplet.listDroplets", WithKeyPaths(c), l)}
      [] p = "droplet.listDroplets" ->
            {R("threw", c, l), R("droplet.dropletQ", c, l), R("droplet.modeQ", c, l)}
      [] p = "droplet.dropletQ" ->
            {dropletAfterChoice([c EXCEPT !.dropletName = "olympusoss-prod", !.dropletIp = "ip_e"],
                                [l EXCEPT !.dropletId = 1]),
             R("droplet.doctl", c, [l EXCEPT !.isNew = TRUE])}
      [] p = "droplet.modeQ" ->
            {R("droplet.doctl", c, [l EXCEPT !.isNew = TRUE]), R("droplet.ipQ", c, l)}
      [] p = "droplet.ipQ" -> {R("droplet.nameQ", [c EXCEPT !.dropletIp = "ip_m"], l)}
      [] p = "droplet.nameQ" -> {dropletAfterChoice([c EXCEPT !.dropletName = "olympusoss-prod"], l)}
      [] p = "droplet.doctl" ->                    \* createDroplet: commandExists, doctl auth init
            {R("threw", c, l), R("droplet.newQ", c, l)}
      [] p = "droplet.newQ" ->                     \* name, region and size
            {R("threw", c, l), R("droplet.create", c, l)}
      [] p = "droplet.create" ->                   \* addSshKey, doctl compute droplet create
            {R("threw", c, l),
             R("droplet.sshPoll", [c EXCEPT !.dropletName = "olympusoss-prod", !.dropletIp = "ip_e"],
                                  [l EXCEPT !.dropletId = 2])}
      [] p = "droplet.sshPoll" -> {dropletAfterChoice(c, l)}
      [] p = "droplet.addSshKey" ->
            {R("threw", c, l),
             IF l.dropletId # 0 THEN R("droplet.firewall", c, l) ELSE R("droplet.sshUserQ", c, l)}
      [] p = "droplet.firewall" ->                 \* ensureFirewall
            {R("threw", c, l), R("droplet.listReservedIps", c, l)}
      [] p = "droplet.listReservedIps" ->          \* handleReservedIp
            {R("threw", c, l),
             R("droplet.sshUserQ", [c EXCEPT !.reservedIp = "ip_r", !.dropletIp = "ip_r"], l),
             R("droplet.reservedIpQ", c, l)}
      [] p = "droplet.reservedIpQ" ->              \* an unassigned IP, or "create new"
            {R("droplet.assignIp", c, l), R("droplet.createIp", c, l)}
      [] p = "droplet.createIp" ->                 \* listDroplets, getDropletRegion, createReservedIp
            {R("threw", c, l), R("droplet.assignIp", c, l)}
      [] p = "droplet.assignIp" ->
            {R("threw", c, l),
             R("droplet.sshUserQ", [c EXCEPT !.reservedIp = "ip_r", !.dropletIp = "ip_r"], l)}
      [] p = "droplet.sshUserQ" ->
            {dropletAfterUser([c EXCEPT !.sshUser = u], l) :
                u \in {IF c.sshUser # "" THEN c.sshUser ELSE "root", "deploy"}}
      [] p = "droplet.copyKey" -> {R("threw", c, l), dropletVerify(c, l)}
      [] p = "droplet.verifyKey" -> {R("threw", c, l), R("returned", c, l)}
      [] OTHER -> {}

\* --- github-env.ts run -----------------------------------------------------
envRun(p, c, l) ==
    CASE p = "begin" -> {R("env.ghAuth", c, l)}
      [] p = "env.ghAuth" ->                       \* ensureGhAuth
            {R("threw", c, l)} \cup
            {LET c1 == [c EXCEPT !.ghcrUsername = IF c.ghcrUsername # "" THEN c.ghcrUsername ELSE "ghuser"]
             IN  IF c1.repoOwner = "" \/ c1.repoName = ""
                 THEN R("env.detectRepo", c1, l) ELSE R("env.createEnv", c1, l)}
      [] p = "env.detectRepo" ->
            {R("env.createEnv", [c EXCEPT !.repoOwner = "detected", !.repoName = "detected"], l),
             R("env.repoQ", c, l)}
      [] p = "env.repoQ" -> {R("env.createEnv", [c EXCEPT !.repoOwner = "new", !.repoName = "new"], l)}
      [] p = "env.createEnv" -> {R("returned", c, l)}
      [] OTHER -> {}

\* --- github-secrets.ts run -------------------------------------------------
secretsMap(c, sshKey) ==
    [n \in {"DEPLOY_SSH_KEY", "GHCR_PAT", "NEON_CIAM_KRATOS_DSN", "NEON_CIAM_HYDRA_DSN",
            "NEON_IAM_KRATOS_DSN", "NEON_IAM_HYDRA_DSN", "RESEND_API_KEY", "ADMIN_PASSWORD"}
           \cup DOMAIN deriveAllSecrets(c.passphrase, c.includeSite) |->
        CASE n = "DEPLOY_SSH_KEY" -> sshKey
          [] n = "GHCR_PAT" -> c.ghcrPat
          [] n = "NEON_CIAM_KRATOS_DSN" -> c.neonDsns.ciamKratos
          [] n = "NEON_CIAM_HYDRA_DSN" -> c.neonDsns.ciamHydra
          [] n = "NEON_IAM_KRATOS_DSN" -> c.neonDsns.iamKratos
          [] n = "NEON_IAM_HYDRA_DSN" -> c.neonDsns.iamHydra
          [] n = "RESEND_API_KEY" -> c.resendApiKey
          [] n = "ADMIN_PASSWORD" -> c.adminPassword
          [] OTHER -> deriveAllSecrets(c.passphrase, c.includeSite)[n]]

\* run(), from the derivation on: the key file is read, or the key is asked for.
secretsAfterOwner(c, l) ==
    IF c.sshPrivateKeyPath # ""
    THEN {R("secrets.set", [c EXCEPT !.githubSecrets = secretsMap(c, "keyfile")], l),
          R("secrets.sshKeyQ", c, l)}
    ELSE {R("secrets.sshKeyQ", c, l)}

secretsRun(p, c, l) ==
    CASE p = "begin" ->
            IF c.repoOwner = "" THEN {R("secrets.detectRepo", c, l)} ELSE secretsAfterOwner(c, l)
      [] p = "secrets.detectRepo" ->
            secretsAfterOwner([c EXCEPT !.repoOwner = "detected"], l) \cup {R("secrets.orgQ", c, l)}
      [] p = "secrets.orgQ" -> secretsAfterOwner([c EXCEPT !.repoOwner = "new"], l)
      [] p = "secrets.sshKeyQ" ->
            {R("secrets.set", [c EXCEPT !.githubSecrets = secretsMap(c, "pasted")], l)}
      [] p = "secrets.set" ->                      \* setOrgSecret for each non-empty entry
            {R("threw", c, l), R("returned", c, l)}
      [] OTHER -> {}

\* --- github-vars.ts run ----------------------------------------------------
variablesMap(c) ==
    [n \in {"DEPLOY_SERVER_IP", "DEPLOY_USER", "DEPLOY_PATH", "GHCR_USERNAME", "ADMIN_EMAIL",
            "SITE_PUBLIC_URL"} |->
        CASE n = "DEPLOY_SERVER_IP" -> c.dropletIp
          [] n = "DEPLOY_USER" -> IF c.sshUser # "" THEN c.sshUser ELSE "root"
          [] n = "DEPLOY_PATH" -> c.deployPath
          [] n = "GHCR_USERNAME" -> c.ghcrUsername
          [] n = "ADMIN_EMAIL" -> IF c.adminEmail # "" THEN c.adminEmail ELSE "admin@" \o c.domain
          [] n = "SITE_PUBLIC_URL" -> "https://olympus." \o c.domain]

varsAfterOwner(c, l) ==
    IF c.ghcrUsername = "" THEN R("vars.ghAuth", c, l)
    ELSE R("vars.set", [c EXCEPT !.githubVariables = variablesMap(c)], l)

varsRun(p, c, l) ==
    CASE p = "begin" ->
            IF c.repoOwner = "" THEN {R("vars.detectRepo", c, l)} ELSE {varsAfterOwner(c, l)}
      [] p = "vars.detectRepo" ->
            {varsAfterOwner([c EXCEPT !.repoOwner = "detected"], l), R("vars.orgQ", c, l)}
      [] p = "vars.orgQ" -> {varsAfterOwner([c EXCEPT !.repoOwner = "new"], l)}
      [] p = "vars.ghAuth" ->
            {R("threw", c, l),
             LET c1 == [c EXCEPT !.ghcrUsername = "ghuser"]
             IN  R("vars.set", [c1 EXCEPT !.githubVariables = variablesMap(c1)], l)}
      [] p = "vars.set" ->                         \* setOrgVariable for each entry
            {R("threw", c, l), R("returned", c, l)}
      [] OTHER -> {}

\* --- app-deploy-secrets.ts run ---------------------------------------------
appAfterUser(c, l) ==
    IF c.dropletIp = "" THEN R("threw", c, l) ELSE R("app.configure", c, l)

appAfterPat(c, l) ==
    IF c.ghcrUsername = "" THEN R("app.ghAuth", c, l) ELSE appAfterUser(c, l)

\* run(), from the SSH key on: the key file is read (or not), with the key of
\* githubSecrets as the fallback; without any key the step throws.
appAfterOwner(c, l) ==
    LET fromFile == IF c.sshPrivateKeyPath # "" THEN {"keyfile", ""} ELSE {""}
        fallback == IF "DEPLOY_SSH_KEY" \in DOMAIN c.githubSecrets
                    THEN c.githubSecrets["DEPLOY_SSH_KEY"] ELSE ""
    IN  {IF (IF k # "" THEN k ELSE fallback) = "" THEN R("threw", c, l)
         ELSE IF c.ghcrPat = "" THEN R("app.patQ", c, l)
         ELSE appAfterPat(c, l) : k \in fromFile}

appRun(p, c, l) ==
    CASE p = "begin" ->
            IF c.repoOwner = "" THEN {R("app.detectRepo", c, l)} ELSE appAfterOwner(c, l)
      [] p = "app.detectRepo" ->
            appAfterOwner([c EXCEPT !.repoOwner = "detected"], l) \cup {R("app.orgQ", c, l)}
      [] p = "app.orgQ" -> appAfterOwner([c EXCEPT !.repoOwner = "new"], l)
      [] p = "app.patQ" -> {appAfterPat([c EXCEPT !.ghcrPat = "new"], l)}
      [] p = "app.ghAuth" ->
            {R("threw", c, l), appAfterUser([c EXCEPT !.ghcrUsername = "ghuser"], l)}
      [] p = "app.configure" ->                    \* createEnvironment, setSecret, setVariable per repo
            {R("threw", c, l), R("returned", c, l)}
      [] OTHER -> {}

\* step.run of the step with the given id
StepRun(id, p, c, l) ==
    CASE id = "resend"             -> resendRun(p, c, l)
      [] id = "neon"               -> neonRun(p, c, l)
      [] id = "droplet"            -> dropletRun(p, c, l)
      [] id = "github-env"         -> envRun(p, c, l)
      [] id = "github-secrets"     -> secretsRun(p, c, l)
      [] id = "github-vars"        -> varsRun(p, c, l)
      [] id = "app-deploy-secrets" -> appRun(p, c, l)

\* ---------------------------------------------------------------------------
\* The orchestrator (index.ts main)
\* ---------------------------------------------------------------------------

\* What the step menu can return: up to MaxSelected distinct steps, in any order.
Selections ==
    UNION {{s \in [1..n -> StepIds] : \A a, b \in 1..n : a # b => s[a] # s[b]} : n \in 1..MaxSelected}

\* The prompts of main().
MainPrompts ==
    {"menu", "domainQ", "passQ", "passPrefilledQ", "confirmQ", "passRetryQ", "adminEmailQ",
     "adminPasswordQ", "repoQ", "resendKeyQ", "neonTokenQ", "doTokenQ", "ghcrPatQ",
     "retryQ", "contQ"}

AtPrompt == pc \in MainPrompts \/ (pc = "step" /\ sp \in StepPrompts)
AtSuspension == pc \in MainPrompts \cup {"prereq"} \/ (pc = "step" /\ sp # "begin")

St(p, c, d) == [pc |-> p, ctx |-> c, disk |-> d]

\* saveOnExit: the exit handlers save only a context that holds a domain, a
\* passphrase or a DigitalOcean token.
saveOnExit(active, c, d) ==
    IF active /\ (c.domain # "" \/ c.passphrase # "" \/ c.doToken # "") THEN saveSettings(c) ELSE d

\* const ctx = createEmptyContext(); loadPreviousContext(ctx); ctx.selectedSteps = selectedIds
KeepLoadedSelection(loaded, ids) == loaded
SetSelection(loaded, ids) == [loaded EXCEPT !.selectedSteps = ids]

\* lines 258-262: derive all secrets from the passphrase and save
deriveOnly(c, d) ==
    IF c.passphrase # ""
    THEN St("loop", [c EXCEPT !.derivedSecrets = deriveAllSecrets(c.passphrase, c.includeSite)], d)
    ELSE St("loop", c, d)
deriveNothing(c, d) == St("loop", c, saveSettings(c))
deriveAndSave(c, d) ==
    IF c.passphrase # ""
    THEN LET c1 == [c EXCEPT !.derivedSecrets = deriveAllSecrets(c.passphrase, c.includeSite)]
         IN  St("loop", c1, saveSettings(c1))
    ELSE St("loop", c, d)

\* lines 197-256: the repo and token prompts, in order, each only when needed
TokenPrompts == <<"repoQ", "resendKeyQ", "neonTokenQ", "doTokenQ", "ghcrPatQ">>
TokenNeeded(q, ids) ==
    CASE q = "repoQ"      -> NeedsRepo(ids)
      [] q = "resendKeyQ" -> NeedsResendKey(ids)
      [] q = "neonTokenQ" -> NeedsNeonToken(ids)
      [] q = "doTokenQ"   -> NeedsDoToken(ids)
      [] q = "ghcrPatQ"   -> NeedsGhcrPat(ids)
TokenField(q) ==
    CASE q = "resendKeyQ" -> "resendApiKey"
      [] q = "neonTokenQ" -> "neonApiToken"
      [] q = "doTokenQ"   -> "doToken"
      [] q = "ghcrPatQ"   -> "ghcrPat"
TokenIndex(q) == CHOOSE n \in 1..Len(TokenPrompts) : TokenPrompts[n] = q

RECURSIVE fromToken(_, _, _, _)
fromToken(n, c, d, ids) ==
    IF n > Len(TokenPrompts) THEN deriveAndSave(c, d)
    ELSE IF TokenNeeded(TokenPrompts[n], ids) THEN St(TokenPrompts[n], c, d)
    ELSE fromToken(n + 1, c, d, ids)

\* line 193: ctx.includeSite = true, then the repo and token prompts
afterAdmin(c, d, ids) == fromToken(1, [c EXCEPT !.includeSite = TRUE], d, ids)

\* line 174: saveSettings once the passphrase is settled, then the admin prompts
afterPassphrase(c, ids) ==
    IF "adminPassword" \in AllNeeds(ids) THEN St("adminEmailQ", c, saveSettings(c))
    ELSE afterAdmin(c, saveSettings(c), ids)

\* line 145: a passphrase of the previous run is offered for confirmation
passphrasePrompt(c) == IF c.passphrase # "" THEN "passPrefilledQ" ELSE "passQ"

\* Exit statuses of the process.exit calls
PrereqExit == 1
CancelExit == 0
DoneExit == 0

\* Giving up on the passphrase, were it reported like a missing prerequisite;
\* declining to continue, were it reported like a cancellation.
GaveUpAsFailure == PrereqExit
DeclinedAsCancel == CancelExit

MismatchExit == 0
DeclinedExit == 1

Go(st) == /\ pc' = st.pc /\ ctx' = st.ctx /\ disk' = st.disk

\* process.exit(code): nothing of the process is left but the file and, for the
\* record, the context it held.
Exit(code, why) ==
    /\ pc' = "exited" /\ exitCode' = code /\ exitReason' = why
    /\ sp' = "" /\ loc' = InitLoc /\ attemptCtx' = createEmptyContext

\* commandExists("gh"), commandExists("ssh-keygen")
LocalTools == [gh : BOOLEAN, sshKeygen : BOOLEAN]

Init ==
    /\ pc = "prereq"
    /\ ctx = createEmptyContext
    /\ activeCtx = FALSE
    /\ disk \in PrevFiles
    /\ selectedIds = <<>>
    /\ i = 1
    /\ sp = ""
    /\ loc = InitLoc
    /\ exitCode = -1
    /\ exitReason = ""
    /\ startLog = <<>>
    /\ settled = <<>>
    /\ running = {}
    /\ attemptCtx = createEmptyContext
    /\ thrownCtx = createEmptyContext
    /\ env \in LocalTools

\* checkPrerequisites: gh and ssh-keygen must be on the PATH
ghPresent(e) == e.gh
toolsPresent(e) == e.gh /\ e.sshKeygen

checkPrerequisites ==
    /\ pc = "prereq"
    /\ IF toolsPresent(env)
          THEN /\ pc' = "menu"
               /\ UNCHANGED <<exitCode, exitReason>>
               /\ UNCHANGED <<sp, loc, attemptCtx>>
          ELSE /\ Exit(PrereqExit, "prereq")
    /\ UNCHANGED <<ctx, activeCtx, disk, selectedIds, i, startLog, settled, running, thrownCtx>>
    /\ UNCHANGED env

\* lines 115-135: the menu is answered, the context is created and merged
SelectSteps ==
    /\ pc = "menu"
    /\ \E ids \in Selections :
          LET c == SetSelection(loadPreviousContext(createEmptyContext, disk), ids)
          IN  /\ selectedIds' = ids
              /\ ctx' = c
              /\ pc' = IF "domain" \in AllNeeds(ids) THEN "domainQ" ELSE passphrasePrompt(c)
    /\ activeCtx' = TRUE
    /\ UNCHANGED <<disk, i, sp, loc, exitCode, exitReason, startLog, settled, running,
                   attemptCtx, thrownCtx>>
    /\ UNCHANGED env

Frame == UNCHANGED <<activeCtx, selectedIds, i, sp, loc, exitCode, exitReason, startLog,
                     settled, running, attemptCtx, thrownCtx>>

AnswerDomain ==
    /\ pc = "domainQ"
    /\ \E v \in Answers(ctx.domain) :
          LET c == [ctx EXCEPT !.domain = v]
          IN  Go(St(passphrasePrompt(c), c, saveSettings(c)))
    /\ Frame
    /\ UNCHANGED env

AnswerPrefilledPassphrase ==
    /\ pc = "passPrefilledQ"
    /\ \E v \in {ctx.passphrase, NewPassphrase} :
          Go(afterPassphrase([ctx EXCEPT !.passphrase = v], selectedIds))
    /\ Frame
    /\ UNCHANGED env

AnswerPassphrase ==
    /\ pc = "passQ"
    /\ Go(St("confirmQ", [ctx EXCEPT !.passphrase = NewPassphrase], disk))
    /\ Frame
    /\ UNCHANGED env

\* line 160: the second entry is compared with the first
anyConfirmation(confirmPass, passphrase) == TRUE
passphraseConfirmed(confirmPass, passphrase) == confirmPass = passphrase

ConfirmPassphrase ==
    /\ pc = "confirmQ"
    /\ \E confirmPass \in {OldPassphrase, NewPassphrase} :
          /\ loc' = [loc EXCEPT !.confirmPass = confirmPass]
          /\ IF passphraseConfirmed(confirmPass, ctx.passphrase)
             THEN Go(afterPassphrase(ctx, selectedIds))
             ELSE Go(St("passRetryQ", ctx, disk))
    /\ UNCHANGED <<activeCtx, selectedIds, i, sp, exitCode, exitReason, startLog,
                   settled, running, attemptCtx, thrownCtx>>
    /\ UNCHANGED env

AnswerPassRetry ==
    /\ pc = "passRetryQ"
    /\ \E retry \in BOOLEAN :
          IF retry
          THEN /\ pc' = "passQ"
               /\ loc' = InitLoc
               /\ UNCHANGED <<exitCode, exitReason, sp, attemptCtx>>
          ELSE /\ Exit(MismatchExit, "gaveUp")
    /\ UNCHANGED <<ctx, activeCtx, disk, selectedIds, i, startLog, settled, running, thrownCtx>>
    /\ UNCHANGED env

AnswerAdminEmail ==
    /\ pc = "adminEmailQ"
    /\ \E v \in Kept(IF ctx.adminEmail # "" THEN ctx.adminEmail
                     ELSE IF ctx.domain # "" THEN "admin@" \o ctx.domain ELSE "") :
          LET c == [ctx EXCEPT !.adminEmail = v]
          IN  Go(St("adminPasswordQ", c, saveSettings(c)))
    /\ Frame
    /\ UNCHANGED env

AnswerAdminPassword ==
    /\ pc = "adminPasswordQ"
    /\ \E v \in Kept(ctx.adminPassword) :
          LET c == [ctx EXCEPT !.adminPassword = v]
          IN  Go(afterAdmin(c, saveSettings(c), selectedIds))
    /\ Frame
    /\ UNCHANGED env

AnswerRepo ==
    /\ pc = "repoQ"
    /\ \E slug \in IF ctx.repoOwner # "" /\ ctx.repoName # ""
                   THEN {<<ctx.repoOwner, ctx.repoName>>} ELSE {<<"new", "new">>} :
          LET c == [ctx EXCEPT !.repoOwner = slug[1], !.repoName = slug[2]]
          IN  Go(fromToken(TokenIndex("repoQ") + 1, c, saveSettings(c), selectedIds))
    /\ Frame
    /\ UNCHANGED env

AnswerToken ==
    /\ pc \in {"resendKeyQ", "neonTokenQ", "doTokenQ", "ghcrPatQ"}
    /\ \E v \in Kept(ctx[TokenField(pc)]) :
          LET c == [ctx EXCEPT ![TokenField(pc)] = v]
          IN  Go(fromToken(TokenIndex(pc) + 1, c, saveSettings(c), selectedIds))
    /\ Frame
    /\ UNCHANGED env

\* --- the step loop, lines 264-306 -------------------------------------------

\* saveSettings(ctx, true) after step.run returned (line 276) and threw (line 279)
noSave(c, d) == d
saveAfterReturn(c, d) == saveSettings(c)
saveAfterThrow(c, d) == saveSettings(c)

CurrentStep == SelectedSteps(selectedIds)[i]

\* The loop takes the next step (pc = "loop") or retries the same one (pc = "again").
StartStep ==
    /\ pc \in {"loop", "again"}
    /\ i <= Len(SelectedSteps(selectedIds))
    /\ pc' = "step"
    /\ sp' = "begin"
    /\ loc' = InitLoc
    /\ attemptCtx' = ctx
    /\ running' = running \cup {CurrentStep}
    /\ startLog' = IF pc = "loop" THEN Append(startLog, CurrentStep) ELSE startLog
    /\ UNCHANGED <<ctx, activeCtx, disk, selectedIds, i, exitCode, exitReason, settled, thrownCtx>>
    /\ UNCHANGED env

\* The catch branch up to the retry question.
Threw(c) ==
    /\ ctx' = c
    /\ disk' = saveAfterThrow(c, disk)
    /\ thrownCtx' = c
    /\ running' = running \ {CurrentStep}
    /\ pc' = "retryQ"
    /\ sp' = ""
    /\ loc' = InitLoc
    /\ attemptCtx' = createEmptyContext
    /\ UNCHANGED <<activeCtx, selectedIds, i, exitCode, exitReason, startLog, settled>>

\* The running step goes on from its suspension point.
StepResume ==
    /\ pc = "step"
    /\ \E r \in StepRun(CurrentStep, sp, ctx, loc) :
          CASE r.sp = "returned" ->
                  /\ ctx' = r.ctx
                  /\ disk' = saveAfterReturn(r.ctx, disk)
                  /\ settled' = Append(settled, "ok")
                  /\ running' = running \ {CurrentStep}
                  /\ i' = i + 1
                  /\ pc' = "loop"
                  /\ sp' = ""
                  /\ loc' = InitLoc
                  /\ attemptCtx' = createEmptyContext
                  /\ UNCHANGED <<activeCtx, selectedIds, exitCode, exitReason, startLog, thrownCtx>>
            [] r.sp = "threw" -> Threw(r.ctx)
            [] OTHER ->
                  /\ ctx' = r.ctx
                  /\ sp' = r.sp
                  /\ loc' = r.loc
                  /\ UNCHANGED <<pc, activeCtx, disk, selectedIds, i, exitCode, exitReason,
                                 startLog, settled, running, attemptCtx, thrownCtx>>
    /\ UNCHANGED env

AnswerRetry ==
    /\ pc = "retryQ"
    /\ \E retry \in BOOLEAN :
          /\ pc' = IF retry THEN "again" ELSE "contQ"
          /\ thrownCtx' = IF retry THEN createEmptyContext ELSE thrownCtx
    /\ UNCHANGED <<ctx, activeCtx, disk, selectedIds, i, sp, loc, exitCode, exitReason,
                   startLog, settled, running, attemptCtx>>
    /\ UNCHANGED env

\* lines 301-302: failedStepIds.add(step.id); break leaves the while loop, and
\* the for loop goes on with i++.
sameStep(n) == n
afterAbandon(n) == n + 1

AnswerContinue ==
    /\ pc = "contQ"
    /\ \E cont \in BOOLEAN :
          IF cont
          THEN /\ pc' = "loop" /\ i' = afterAbandon(i) /\ settled' = Append(settled, "abandoned")
               /\ thrownCtx' = createEmptyContext
               /\ UNCHANGED <<exitCode, exitReason, sp, loc, attemptCtx>>
          ELSE /\ Exit(DeclinedExit, "declined")
               /\ UNCHANGED <<i, settled, thrownCtx>>
    /\ UNCHANGED <<ctx, activeCtx, disk, selectedIds, startLog, running>>
    /\ UNCHANGED env

\* lines 308-346: the final save and the summary; main() resolves
Finish ==
    /\ pc = "loop"
    /\ i > Len(SelectedSteps(selectedIds))
    /\ disk' = saveSettings(ctx)
    /\ Exit(DoneExit, "finished")
    /\ UNCHANGED <<ctx, activeCtx, selectedIds, i, startLog, settled, running, thrownCtx>>
    /\ UNCHANGED env

\* --- cancellation ------------------------------------------------------------

\* The keypress handler of setupEscapeHandler: saveOnExit, then process.exit(0).
escapeOutcome == [disk |-> saveOnExit(activeCtx, ctx, disk), exit |-> CancelExit]

\* Ctrl+C rejects the open prompt with ExitPromptError.  In main() the rejection
\* reaches main().catch: saveOnExit, then process.exit(0).  Inside step.run it
\* is caught by the catch of the step loop like any other error of the step.
interruptOutcome ==
    IF pc = "step" THEN [disk |-> saveAfterThrow(ctx, disk), exit |-> -1]
    ELSE [disk |-> saveOnExit(activeCtx, ctx, disk), exit |-> CancelExit]

Escape ==
    /\ AtSuspension
    /\ disk' = escapeOutcome.disk
    /\ Exit(escapeOutcome.exit, "cancelled")
    /\ UNCHANGED <<ctx, activeCtx, selectedIds, i, startLog, settled, running, thrownCtx>>
    /\ UNCHANGED env

Interrupt ==
    /\ AtPrompt
    /\ IF pc = "step"
       THEN Threw(ctx)
       ELSE /\ disk' = interruptOutcome.disk
            /\ Exit(interruptOutcome.exit, "cancelled")
            /\ UNCHANGED <<ctx, activeCtx, selectedIds, i, startLog, settled, running, thrownCtx>>
    /\ UNCHANGED env

Next ==
    \/ checkPrerequisites
    \/ SelectSteps
    \/ AnswerDomain
    \/ AnswerPrefilledPassphrase
    \/ AnswerPassphrase
    \/ ConfirmPassphrase
    \/ AnswerPassRetry
    \/ AnswerAdminEmail
    \/ AnswerAdminPassword
    \/ AnswerRepo
    \/ AnswerToken
    \/ StartStep
    \/ StepResume
    \/ AnswerRetry
    \/ AnswerContinue
    \/ Finish
    \/ Escape
    \/ Interrupt

Spec == Init /\ [][Next]_vars

\* ---------------------------------------------------------------------------
\* loadPreviousContext on its own: any context merged with any settings file.
\* attemptCtx holds the context as it was before the merge.
\* ---------------------------------------------------------------------------

TxtRecord == [type |-> "TXT", name |-> "resend._domainkey", value |-> "p=key", priority |-> 0]

LoadTargets ==
    {[createEmptyContext EXCEPT !.domain = d, !.sshUser = u, !.resendDnsRecords = r,
                                !.selectedSteps = sel, !.derivedSecrets = m] :
        d \in {"", "cur"}, u \in {"", "root"}, r \in {<<>>, <<TxtRecord>>},
        sel \in {<<>>, <<"neon">>}, m \in {EmptyMap, deriveAllSecrets(NewPassphrase, FALSE)}}

LoadInit ==
    /\ pc = "load"
    /\ ctx \in LoadTargets
    /\ activeCtx = FALSE
    /\ disk \in PrevFiles
    /\ selectedIds = <<>>
    /\ i = 1
    /\ sp = ""
    /\ loc = InitLoc
    /\ exitCode = -1
    /\ exitReason = ""
    /\ startLog = <<>>
    /\ settled = <<>>
    /\ running = {}
    /\ attemptCtx = createEmptyContext
    /\ thrownCtx = createEmptyContext
    /\ env = [gh |-> TRUE, sshKeygen |-> TRUE]

LoadApply ==
    /\ pc = "load"
    /\ pc' = "loaded"
    /\ attemptCtx' = ctx
    /\ ctx' = loadPreviousContext(ctx, disk)
    /\ UNCHANGED <<activeCtx, disk, selectedIds, i, sp, loc, exitCode, exitReason, startLog,
                   settled, running, thrownCtx>>
    /\ UNCHANGED env

LoadNext == LoadApply

LoadSpec == LoadInit /\ [][LoadNext]_vars

\* ---------------------------------------------------------------------------
\* Properties
\* ---------------------------------------------------------------------------

\* C1: the steps that start are selected ones, they start in catalog order
\* without skipping a selected one, whatever the order of the ticks; a run
\* that finishes has started every selected step; a step starts only when all
\* the steps started before it have succeeded or were abandoned through the
\* 'continue' answer; at most one step is running.
C1_StepsInCatalogOrder ==
    /\ \A k \in 1..Len(startLog) : startLog[k] \in Range(selectedIds)
    /\ \A j, k \in 1..Len(startLog) :
          j < k => CatalogIndex(startLog[j]) < CatalogIndex(startLog[k])
    /\ \A k \in 1..Len(startLog) : \A id \in Range(selectedIds) :
          CatalogIndex(id) < CatalogIndex(startLog[k]) => id \in Range(startLog)
    /\ exitReason = "finished" => Range(startLog) = Range(selectedIds)
    /\ Len(startLog) \in {Len(settled), Len(settled) + 1}
    /\ pc = "loop" => Len(startLog) = Len(settled)
    /\ Cardinality(running) <= 1
    /\ running # {} => /\ Len(startLog) = Len(settled) + 1
                       /\ running = {startLog[Len(startLog)]}

\* Two steps ticked against the catalog order, and the second of them running.
C1_Witness ==
    /\ Len(selectedIds) = 2
    /\ CatalogIndex(selectedIds[1]) > CatalogIndex(selectedIds[2])
    /\ pc = "step"
    /\ startLog = <<selectedIds[2], selectedIds[1]>>
    /\ settled \in {<<"ok">>, <<"abandoned">>}

\* C2: when the run has ended because the user declined the retry and then
\* declined to continue, the exit status is not zero, the failed step is the
\* last one that was started and nothing can start after it, and the settings
\* file holds the context as it was when the step threw.
C2_RetryThenAbort ==
    exitReason = "declined" =>
        /\ pc = "exited"
        /\ exitCode # 0
        /\ Len(startLog) = i
        /\ startLog[i] = CurrentStep
        /\ running = {}
        /\ ~ENABLED Next
        /\ FileHolds(disk, thrownCtx)
        /\ ctx = thrownCtx

\* The neon step stored the first connection string, then threw; both questions declined.
C2_Witness ==
    /\ exitReason = "declined"
    /\ CurrentStep = "neon"
    /\ thrownCtx.neonDsns.ciamKratos # ""
    /\ thrownCtx.neonDsns.iamHydra = ""

\* C3: a step attempt that ends without returning leads to the retry question
\* for the same step; accepting re-runs that step from its start with the loop
\* index and the list of started steps unchanged; the continue question is
\* shown only from the retry question; and the run ends as declined only from
\* the continue question, with a nonzero status and the context persisted.
C3_RetryThenContinue ==
    [][ /\ (pc = "step" /\ pc' \notin {"step", "exited"} /\ settled' = settled)
            => (pc' = "retryQ" /\ i' = i /\ startLog' = startLog)
        /\ pc = "retryQ" => (pc' \in {"again", "contQ", "exited"} /\ i' = i /\ settled' = settled)
        /\ pc = "again"
            => (pc' = "step" /\ sp' = "begin" /\ i' = i /\ startLog' = startLog /\ ctx' = ctx)
        /\ (pc' = "contQ" /\ pc # "contQ") => pc = "retryQ"
        /\ (pc = "contQ" /\ pc' = "loop") => (i' = i + 1 /\ settled' = Append(settled, "abandoned"))
        /\ (exitReason' = "declined" /\ exitReason # "declined")
            => (pc = "contQ" /\ exitCode' # 0 /\ FileHolds(disk', ctx')) ]_vars

\* A step is running for the second time in place: the retry question was accepted.
C3_Witness ==
    /\ pc = "step"
    /\ sp # "begin"
    /\ Len(startLog) = 1
    /\ settled = <<>>
    /\ ctx.neonDsns.ciamKratos # ""
    /\ CurrentStep = "neon"
    /\ sp = "neon.org"

\* C4: from the end of a step attempt to the start of the next attempt, at the
\* retry question, at the continue question and at the head of the loop, the
\* settings file holds the in-memory context.
C4_SavedAfterEveryAttempt ==
    /\ (pc \in {"retryQ", "contQ", "again", "loop"} /\ Len(startLog) > 0) => FileHolds(disk, ctx)
    /\ (pc = "step" /\ sp = "begin") => FileHolds(disk, ctx)

\* The neon step returned with a project id it stored, and the loop goes on.
C4_Witness ==
    /\ pc = "loop"
    /\ settled = <<"ok">>
    /\ startLog = <<"neon">>
    /\ ctx.neonProjectId # ""

IsEmptyField(key, v) ==
    CASE key \in StringKeys -> v = ""
      [] key \in {"selectedSteps", "resendDnsRecords"} -> Len(v) = 0
      [] key = "neonDsns" -> \A k \in DOMAIN v : v[k] = ""
      [] OTHER -> DOMAIN v = {}

\* C6 as stated: a field that is not empty is left unchanged, an empty field
\* adopts the saved value, and without a saved value nothing changes.
C6_Original ==
    pc = "loaded" =>
        \A key \in Keys \ {"includeSite", "sshPort"} :
            IF disk.kind # "json" \/ disk.data[key].st # "val" THEN ctx[key] = attemptCtx[key]
            ELSE IF IsEmptyField(key, attemptCtx[key]) THEN ctx[key] = disk.data[key].v
            ELSE ctx[key] = attemptCtx[key]

\* C6: a non-empty string field and a non-empty resendDnsRecords are left
\* unchanged and selectedSteps is never touched; every other field for which
\* the file holds a value takes it (an empty string field, an empty
\* resendDnsRecords, and includeSite, sshPort, neonDsns and the three maps
\* whatever they held); an absent or unparsable file and a null or missing key
\* change nothing.
C6_MergeFillsStringsOnly ==
    pc = "loaded" =>
        \A key \in Keys :
            ctx[key] =
                IF /\ disk.kind = "json"
                   /\ disk.data[key].st = "val"
                   /\ key # "selectedSteps"
                   /\ key \in StringKeys => attemptCtx[key] = ""
                   /\ key = "resendDnsRecords" => Len(attemptCtx[key]) = 0
                THEN disk.data[key].v
                ELSE attemptCtx[key]

\* The file of the previous run merged into a context with a user, secrets and
\* a selection but no domain: the domain is adopted, the user kept, the
\* secrets replaced, the selection kept.
C6_Witness ==
    /\ pc = "loaded"
    /\ disk = PrevRun
    /\ attemptCtx.domain = "" /\ ctx.domain = "old"
    /\ attemptCtx.sshUser = "root" /\ ctx.sshUser = "root"
    /\ attemptCtx.derivedSecrets # EmptyMap
    /\ ctx.derivedSecrets = deriveAllSecrets(OldPassphrase, TRUE)
    /\ attemptCtx.selectedSteps = <<>> /\ ctx.selectedSteps = <<>>

\* C7: once the context of the run exists, its selectedSteps is the answer of
\* this run's menu, and so is the selectedSteps of every settings file the run
\* has written.
C7_SelectionIsThisRuns ==
    /\ activeCtx => ctx.selectedSteps = selectedIds
    /\ disk \notin PrevFiles => (disk.kind = "json" /\ disk.data.selectedSteps = Val(selectedIds))

\* A run over the file of a previous run of resend and droplet selects neon
\* alone and has written the file.
C7_Witness ==
    /\ activeCtx
    /\ ctx.resendApiKey = "old"
    /\ selectedIds = <<"neon">>
    /\ disk \notin PrevFiles
    /\ FileHolds(disk, ctx)

\* The context holds something besides the selection of the run.
HoldsInput(c) == \E key \in Keys \ {"selectedSteps"} : c[key] # createEmptyContext[key]

\* C8 as stated: an interrupt at any prompt ends the process at once with
\* status 0, and the settings file then holds the partial context, if there
\* is any.
C8_Original ==
    AtPrompt =>
        /\ interruptOutcome.exit = 0
        /\ (activeCtx /\ HoldsInput(ctx)) => FileHolds(interruptOutcome.disk, ctx)

\* C9 as stated: at every prompt an Escape and an interrupt leave the same
\* settings file and the same exit status.
C9_Original ==
    AtPrompt => escapeOutcome = interruptOutcome

C11_MissingToolStopsTheRun ==
    ~(env.gh /\ env.sshKeygen) =>
        /\ pc \in {"prereq", "exited"}
        /\ ~activeCtx
        /\ selectedIds = <<>>
        /\ ctx = createEmptyContext
        /\ startLog = <<>>
        /\ disk \in PrevFiles
        /\ pc = "exited" => exitReason \in {"prereq", "cancelled"}
        /\ exitReason = "prereq" => exitCode # 0

\* gh is there, ssh-keygen is not, and the process has ended on the check.
C11_Witness ==
    /\ env.gh /\ ~env.sshKeygen
    /\ pc = "exited"
    /\ exitReason = "prereq"
    /\ exitCode = 1

\* The suspension points at which a step waits for ensureGhAuth.
GhAuthPoints == {"env.ghAuth", "vars.ghAuth", "app.ghAuth"}

\* C12 as stated: when ensureGhAuth fails the process ends with a nonzero
\* status; the failure never leads to the retry question of a step.
C12_Original ==
    [][(pc = "step" /\ sp \in GhAuthPoints /\ pc' # "step")
         => (pc' = "exited" /\ (exitReason' = "cancelled" \/ exitCode' # 0))]_vars

\* ---------------------------------------------------------------------------
\* The DigitalOcean operations on their own (lib/digitalocean.ts and
\* handleReservedIp of steps/droplet.ts), called repeatedly for one droplet
\* against an account.  env is the account: its reserved IPs, firewalls and
\* SSH keys.  loc holds the operation under study (fn), the number of finished
\* calls, a record of each finished call (log) and the running call (cur).
\* ---------------------------------------------------------------------------

\* Each operation is called at most this many times in a row.
MaxCalls == 2

\* The droplet the wizard works on, and another droplet of the account.
TargetDroplet == 1
OtherDroplet == 2
\* dropletId: r.droplet?.id ?? null
NoDroplet == 0

\* The reserved IPs an account can hold at the start, none of them created by
\* the wizard, with at most one attached to a droplet.
ReservedIpLists ==
    {l \in SUBSET [ip : {"ipA", "ipB"}, dropletId : {NoDroplet, TargetDroplet, OtherDroplet}] :
        /\ \A r, q \in l : r.ip = q.ip => r = q
        /\ \A r, q \in l : (r.dropletId = q.dropletId /\ r.dropletId # NoDroplet) => r = q}

\* The IPs createReservedIp hands out, in order.
NewIps == <<"ipC", "ipD">>

\* reservedIps.find((r) => r.dropletId === dropletId): its ip, "" for undefined
noneAssigned(ips, dropletId) == ""
assignedToDroplet(ips, dropletId) ==
    IF \E r \in ips : r.dropletId = dropletId
    THEN (CHOOSE r \in ips : r.dropletId = dropletId).ip
    ELSE ""

\* every listed IP, whatever it is attached to
allListed(ips) == {r.ip : r \in ips}
\* reservedIps.filter((r) => r.dropletId === null)
unassigned(ips) == {r.ip : r \in {q \in ips : q.dropletId = NoDroplet}}

\* POST /reserved_ips: the account gets one more IP, attached to nothing.
createReservedIp(ips) ==
    LET made == Cardinality({r \in ips : r.ip \in Range(NewIps)})
    IN  ips \cup {[ip |-> NewIps[made + 1], dropletId |-> NoDroplet]}
createdIp(ips) == NewIps[Cardinality({r \in ips : r.ip \in Range(NewIps)}) + 1]

\* POST /reserved_ips/:ip/actions {type: "assign"}: a free IP gets attached; for
\* an attached one the provider answers "is already assigned", which the
\* function takes for success.
assignNothing(ips, ip, dropletId) == ips
assignReservedIp(ips, ip, dropletId) ==
    {IF r.ip = ip /\ r.dropletId = NoDroplet THEN [r EXCEPT !.dropletId = dropletId] ELSE r : r \in ips}

\* The IPs attached to the droplet, as the account has them.
AttachedIps(ips, dropletId) == {r.ip : r \in {q \in ips : q.dropletId = dropletId}}

\* ensureFirewall's default name, and the firewalls an account can hold at the
\* start: one of that name on the droplet, one of that name on another
\* droplet, one of another name on the droplet.
FirewallName == "olympusoss-firewall"
FirewallSets ==
    SUBSET {[id |-> 1, name |-> FirewallName, droplet_ids |-> {TargetDroplet}],
            [id |-> 2, name |-> FirewallName, droplet_ids |-> {OtherDroplet}],
            [id |-> 3, name |-> "web", droplet_ids |-> {TargetDroplet}]}

\* (fw) => fw.name === name && (fw.droplet_ids ?? []).includes(dropletId)
matchingFirewalls(fws, name, dropletId) ==
    {fw \in fws : fw.name = name /\ dropletId \in fw.droplet_ids}

\* POST /firewalls {name, droplet_ids: [dropletId], ...}
NewId(set) == 10 + Cardinality(set)
createFirewall(fws, name, dropletId) ==
    fws \cup {[id |-> NewId(fws), name |-> name, droplet_ids |-> {dropletId}]}

\* The deploy key: SSH_KEY_NAME and the content of the public key file.
SSH_KEY_NAME == "olympusoss-deploy"
DeployPubKey == "ssh-ed25519 AAAA"

\* String.prototype.trim on the key material the model uses.
Trim(s) == IF s = "ssh-ed25519 AAAA\n" THEN "ssh-ed25519 AAAA" ELSE s

\* The SSH keys an account can hold at the start: one of the deploy key's name
\* with other material, one of another name with the deploy key's material
\* (stored with a trailing newline), one unrelated.
SshKeySets ==
    SUBSET {[id |-> 1, name |-> SSH_KEY_NAME, public_key |-> "ssh-ed25519 BBBB"],
            [id |-> 2, name |-> "laptop", public_key |-> "ssh-ed25519 AAAA\n"],
            [id |-> 3, name |-> "ci", public_key |-> "ssh-ed25519 CCCC"]}

\* (k) => k.name === name || k.public_key.trim() === publicKey.trim()
matchingKeys(keys, name, publicKey) ==
    {k \in keys : k.name = name \/ Trim(k.public_key) = Trim(publicKey)}

\* POST /account/keys {name, public_key}: the provider refuses material that
\* the account already holds.
keyAccepted(keys, publicKey) == \A k \in keys : Trim(k.public_key) # Trim(publicKey)
createKey(keys, name, publicKey) ==
    keys \cup {[id |-> NewId(keys), name |-> name, public_key |-> publicKey]}

\* What the account holds of the thing the operation under study looks for.
Holding(fn, e) ==
    CASE fn = "rip" -> AttachedIps(e.ips, TargetDroplet)
      [] fn = "fw"  -> {fw.id : fw \in matchingFirewalls(e.fws, FirewallName, TargetDroplet)}
      [] fn = "key" -> {k.id : k \in matchingKeys(e.keys, SSH_KEY_NAME, DeployPubKey)}

\* listed: what listReservedIps returned to the running call.
FreshCur == [creates |-> 0, assigns |-> 0, prompts |-> 0, ip |-> "", before |-> {}, answer |-> "",
             listed |-> {}]

DoInit ==
    /\ pc = "idle"
    /\ ctx = [createEmptyContext EXCEPT !.doToken = "new", !.dropletName = "olympusoss-prod",
                                        !.dropletIp = "ip_e"]
    /\ activeCtx = FALSE
    /\ disk = AbsentFile
    /\ selectedIds = <<>>
    /\ i = 1
    /\ sp = ""
    /\ \E fn \in {"rip", "fw", "key"} : loc = [fn |-> fn, calls |-> 0, log |-> <<>>, cur |-> FreshCur]
    /\ exitCode = -1
    /\ exitReason = ""
    /\ startLog = <<>>
    /\ settled = <<>>
    /\ running = {}
    /\ attemptCtx = createEmptyContext
    /\ thrownCtx = createEmptyContext
    /\ \E ips \in ReservedIpLists, fws \in FirewallSets, keys \in SshKeySets :
          /\ env = [ips |-> ips, fws |-> fws, keys |-> keys]
          /\ loc.fn # "rip" => ips = {}
          /\ loc.fn # "fw" => fws = {}
          /\ loc.fn # "key" => keys = {}

DoFrame == UNCHANGED <<activeCtx, disk, selectedIds, i, sp, exitCode, exitReason, startLog,
                       settled, running, attemptCtx, thrownCtx>>

\* The call returns value, or throws (result "threw"): it is recorded.
DoFinish(result, value, e, c, cur) ==
    /\ pc' = "idle"
    /\ env' = e
    /\ ctx' = c
    /\ loc' = [loc EXCEPT
                 !.calls = @ + 1,
                 !.cur = FreshCur,
                 !.log = Append(@, [result |-> result, value |-> value, creates |-> cur.creates,
                                    assigns |-> cur.assigns, prompts |-> cur.prompts,
                                    before |-> cur.before, after |-> Holding(loc.fn, e),
                                    answer |-> cur.answer,
                                    reservedIpBefore |-> ctx.reservedIp,
                                    dropletIpBefore |-> ctx.dropletIp,
                                    reservedIp |-> c.reservedIp, dropletIp |-> c.dropletIp])]

DoGoOn(p, e, cur) ==
    /\ pc' = p
    /\ env' = e
    /\ loc' = [loc EXCEPT !.cur = cur]
    /\ UNCHANGED ctx

\* The operation is called: its first request is under way.
DoCall ==
    /\ pc = "idle"
    /\ loc.calls < MaxCalls
    /\ DoGoOn(loc.fn \o ".list", env, [FreshCur EXCEPT !.before = Holding(loc.fn, env)])
    /\ DoFrame

\* handleReservedIp, lines 281-293: listReservedIps, then the early return
RipList ==
    /\ pc = "rip.list"
    /\ \/ DoFinish("threw", "", env, ctx, loc.cur)
       \/ LET found == assignedToDroplet(env.ips, TargetDroplet)
          IN  IF found # ""
              THEN DoFinish("ok", found, env, [ctx EXCEPT !.reservedIp = found, !.dropletIp = found],
                            loc.cur)
              ELSE DoGoOn("rip.prompt", env, [loc.cur EXCEPT !.listed = env.ips])
    /\ DoFrame

\* lines 295-308: the user picks an unassigned IP or "Create new"
RipChoose ==
    /\ pc = "rip.prompt"
    /\ \E chosen \in unassigned(loc.cur.listed) \cup {"__new__"} :
          IF chosen = "__new__"
          THEN DoGoOn("rip.create", env, [loc.cur EXCEPT !.prompts = @ + 1])
          ELSE DoGoOn("rip.assign", env, [loc.cur EXCEPT !.prompts = @ + 1, !.ip = chosen])
    /\ DoFrame

\* lines 311-319: listDroplets, getDropletRegion, createReservedIp
RipCreate ==
    /\ pc = "rip.create"
    /\ \/ DoFinish("threw", "", env, ctx, loc.cur)
       \/ Len(NewIps) > Cardinality({r \in env.ips : r.ip \in Range(NewIps)})
          /\ DoGoOn("rip.assign", [env EXCEPT !.ips = createReservedIp(env.ips)],
                    [loc.cur EXCEPT !.creates = @ + 1, !.ip = createdIp(env.ips)])
    /\ DoFrame

\* The answers to the assign request: 2xx, a failure whose body has "is
\* already assigned", any other failure; and whether assignReservedIp
\* returns on it (digitalocean.ts 239-244).
AssignAnswers == {"ok", "already", "error"}
returnsOn2xxOnly(answer) == answer = "ok"
assignReturns(answer) == answer \in {"ok", "already"}

\* lines 324-329: assignReservedIp, then the context is written. An IP the
\* provider calls already assigned is attached to the droplet, by this request
\* or by an earlier one.
RipAssign ==
    /\ pc = "rip.assign"
    /\ \E answer \in AssignAnswers :
          LET cur == [loc.cur EXCEPT !.assigns = @ + 1, !.answer = answer]
              e == IF answer = "error" THEN env
                   ELSE [env EXCEPT !.ips = assignReservedIp(env.ips, loc.cur.ip, TargetDroplet)]
          IN  IF assignReturns(answer)
              THEN DoFinish("ok", loc.cur.ip, e,
                            [ctx EXCEPT !.reservedIp = loc.cur.ip, !.dropletIp = loc.cur.ip], cur)
              ELSE DoFinish("threw", "", e, ctx, cur)
    /\ DoFrame

\* ensureFirewall, the list request: a match is returned; without one, and
\* also when the request fails, the function goes on to create.
FwList ==
    /\ pc = "fw.list"
    /\ \/ \E listOk \in BOOLEAN :
             LET matches == IF listOk THEN matchingFirewalls(env.fws, FirewallName, TargetDroplet)
                            ELSE {}
             IN  /\ matches = {}
                 /\ DoGoOn("fw.create", env, loc.cur)
       \/ \E existing \in matchingFirewalls(env.fws, FirewallName, TargetDroplet) :
             DoFinish("ok", existing.id, env, ctx, loc.cur)
    /\ DoFrame

\* ensureFirewall, the create request
FwCreate ==
    /\ pc = "fw.create"
    /\ \/ DoFinish("threw", 0, env, ctx, [loc.cur EXCEPT !.creates = @ + 1])
       \/ DoFinish("ok", NewId(env.fws),
                   [env EXCEPT !.fws = createFirewall(env.fws, FirewallName, TargetDroplet)],
                   ctx, [loc.cur EXCEPT !.creates = @ + 1])
    /\ DoFrame

\* addSshKey, the list request: as in ensureFirewall
KeyList ==
    /\ pc = "key.list"
    /\ \/ \E listOk \in BOOLEAN :
             LET matches == IF listOk THEN matchingKeys(env.keys, SSH_KEY_NAME, DeployPubKey)
                            ELSE {}
             IN  /\ matches = {}
                 /\ DoGoOn("key.create", env, loc.cur)
       \/ \E existing \in matchingKeys(env.keys, SSH_KEY_NAME, DeployPubKey) :
             DoFinish("ok", existing.id, env, ctx, loc.cur)
    /\ DoFrame

\* addSshKey, the create request
KeyCreate ==
    /\ pc = "key.create"
    /\ \/ DoFinish("threw", 0, env, ctx, [loc.cur EXCEPT !.creates = @ + 1])
       \/ /\ keyAccepted(env.keys, DeployPubKey)
          /\ DoFinish("ok", NewId(env.keys),
                      [env EXCEPT !.keys = createKey(env.keys, SSH_KEY_NAME, DeployPubKey)],
                      ctx, [loc.cur EXCEPT !.creates = @ + 1])
    /\ DoFrame

DoNext ==
    \/ DoCall
    \/ RipList
    \/ RipChoose
    \/ RipCreate
    \/ RipAssign
    \/ FwList
    \/ FwCreate
    \/ KeyList
    \/ KeyCreate

DoSpec == DoInit /\ [][DoNext]_vars

\* C13: whenever a reserved IP is attached to the droplet when
\* handleReservedIp is called, the call never prompts, creates or assigns,
\* and when it returns, reservedIp and dropletIp are that IP; the droplet
\* never has two reserved IPs.
C13_AttachedIpIsReused ==
    loc.fn = "rip" =>
        /\ \A k \in 1..Len(loc.log) :
              LET e == loc.log[k]
              IN  e.before # {} =>
                    /\ e.creates = 0 /\ e.assigns = 0 /\ e.prompts = 0
                    /\ e.result = "ok" =>
                          (e.value \in e.before /\ e.reservedIp = e.value /\ e.dropletIp = e.value)
        /\ (pc # "idle" /\ loc.cur.before # {}) => pc = "rip.list"
        /\ Cardinality(AttachedIps(env.ips, TargetDroplet)) <= 1

\* ipA was attached to the droplet and ipB free: the call returned ipA.
C13_Witness ==
    /\ loc.fn = "rip"
    /\ Len(loc.log) >= 1
    /\ loc.log[1].before = {"ipA"}
    /\ loc.log[1].result = "ok"
    /\ loc.log[1].value = "ipA"
    /\ ctx.reservedIp = "ipA"
    /\ [ip |-> "ipB", dropletId |-> NoDroplet] \in env.ips

\* C14: after a call of handleReservedIp that returned, the IP it returned is
\* the one attached to the droplet, and a second call creates no reserved IP,
\* leaves the same IP attached and, if it returns, returns that IP.
C14_SecondCallReusesTheIp ==
    (loc.fn = "rip" /\ Len(loc.log) >= 1 /\ loc.log[1].result = "ok") =>
        /\ loc.log[1].after = {loc.log[1].value}
        /\ loc.cur.creates = 0
        /\ AttachedIps(env.ips, TargetDroplet) = loc.log[1].after
        /\ Len(loc.log) = 2 =>
              /\ loc.log[2].creates = 0
              /\ loc.log[2].after = loc.log[1].after
              /\ loc.log[2].result = "ok" =>
                    (loc.log[2].value = loc.log[1].value /\ loc.log[2].reservedIp = loc.log[1].reservedIp)

\* The first call created an IP and attached it; the second call returned it.
C14_Witness ==
    /\ loc.fn = "rip"
    /\ Len(loc.log) = 2
    /\ loc.log[1].creates = 1
    /\ loc.log[1].result = "ok"
    /\ loc.log[2].result = "ok"
    /\ loc.log[2].value = loc.log[1].value

\* C15 as stated: in every state of a run, dropletIp is reservedIp whenever
\* reservedIp is not empty.
C15_Original ==
    (activeCtx /\ ctx.reservedIp # "") => ctx.dropletIp = ctx.reservedIp

\* C16 as stated: a call of ensureFirewall that finds a firewall of the name on
\* the droplet issues no create call and returns that firewall; two calls in a
\* row that both return, return the same id; and the calls create at most one
\* firewall.
C16_Original ==
    loc.fn = "fw" =>
        /\ \A k \in 1..Len(loc.log) :
              LET e == loc.log[k]
              IN  e.before # {} => (e.creates = 0 /\ (e.result = "ok" => e.value \in e.before))
        /\ (Len(loc.log) = 2 /\ loc.log[1].result = "ok" /\ loc.log[2].result = "ok")
              => loc.log[1].value = loc.log[2].value
        /\ Cardinality({fw \in env.fws : fw.id >= NewId({})}) <= 1

\* C17 as stated: a call of addSshKey with a key of the name or of the
\* material on the account issues no create call and returns such a key; a
\* call without one issues exactly one create call; and the calls register at
\* most one key.
C17_Original ==
    loc.fn = "key" =>
        /\ \A k \in 1..Len(loc.log) :
              LET e == loc.log[k]
              IN  /\ e.before # {} => (e.creates = 0 /\ (e.result = "ok" => e.value \in e.before))
                  /\ e.before = {} => e.creates = 1
        /\ Cardinality({k \in env.keys : k.id >= NewId({})}) <= 1

\* ---------------------------------------------------------------------------
\* The DNS step (hostinger.ts) alone: run builds the desired records from the
\* context and syncDnsRecords writes them to the zone; the step is run up to
\* MaxCalls times against one zone. env.zone is the provider's record list,
\* loc the position within the call and the record of the finished calls.
\* ---------------------------------------------------------------------------
aRecordSubdomains ==
    <<"login.ciam", "login.iam", "oauth.ciam", "oauth.iam", "admin.ciam", "admin.iam", "olympus">>
DnsTtl == 3600

toUpperCase(s) ==
    CASE s = "a" -> "A" [] s = "mx" -> "MX" [] s = "txt" -> "TXT" [] OTHER -> s

\* run, lines 32-51: the A records of the platform, then the stored email records
allRecords(c) ==
    [k \in 1..Len(aRecordSubdomains) |->
        [type |-> "A", name |-> aRecordSubdomains[k], content |-> c.dropletIp, ttl |-> DnsTtl,
         priority |-> 0]]
    \o [k \in 1..Len(c.resendDnsRecords) |->
        [type |-> toUpperCase(c.resendDnsRecords[k].type), name |-> c.resendDnsRecords[k].name,
         content |-> c.resendDnsRecords[k].value, ttl |-> DnsTtl,
         priority |-> c.resendDnsRecords[k].priority]]

\* line 105: the first record of the fetched list with the type and the name
RECURSIVE findMatch(_, _)
findMatch(existingRecords, record) ==
    IF existingRecords = <<>> THEN <<>>
    ELSE IF toUpperCase(Head(existingRecords).type) = record.type
            /\ Head(existingRecords).name = record.name
         THEN <<Head(existingRecords)>>
         ELSE findMatch(Tail(existingRecords), record)

\* lines 107-160: what syncDnsRecords does with one desired record
recordAction(existingRecords, record) ==
    LET match == findMatch(existingRecords, record)
    IN  IF match # <<>> /\ match[1].content = record.content THEN "skip"
        ELSE IF match # <<>> THEN "update"
        ELSE "create"

\* The provider's PUT /zones/:domain: with overwrite the records of the type
\* and name are replaced by the one sent, without it the one sent is added.
putRecord(zone, record, overwrite) ==
    LET kept == SelectSeq(zone, LAMBDA e :
                    ~(toUpperCase(e.type) = record.type /\ e.name = record.name))
        sent == [type |-> record.type, name |-> record.name, content |-> record.content]
    IN  IF overwrite THEN Append(kept, sent) ELSE Append(zone, sent)

SpfRecord == [type |-> "txt", name |-> "send", value |-> "v=spf1", priority |-> 0]
VerifyRecord == [type |-> "TXT", name |-> "send", value |-> "verify=1", priority |-> 0]
EmailRecordLists ==
    {<<>>, <<MxRecord>>, <<MxRecord, SpfRecord>>, <<SpfRecord, VerifyRecord>>}

Zones ==
    {<<>>,
     <<[type |-> "a", name |-> "olympus", content |-> "ip_r"]>>,
     <<[type |-> "A", name |-> "olympus", content |-> "ip_x"],
       [type |-> "A", name |-> "olympus", content |-> "ip_r"]>>,
     <<[type |-> "MX", name |-> "send", content |-> "feedback-smtp"],
       [type |-> "TXT", name |-> "send", content |-> "verify=1"]>>}

\* last: the answer to the last write of the running call.
FreshSync == [updates |-> 0, creates |-> 0, skips |-> 0, rejected |-> 0, last |-> ""]

\* The provider refuses at most MaxRefused writes in all.
MaxRefused == 1

\* The answers to one write: 2xx, a non-2xx answer, and a request that fails
\* without an answer (fetch rejects).
PutAnswers(l) == IF l.refused < MaxRefused THEN {"ok", "refused", "failed"} ELSE {"ok", "failed"}

\* lines 131-135 and 155-159: whether the loop goes on after a write answered so
goesOnAfter2xx(answer) == answer = "ok"
goesOnAfter(answer) == answer \in {"ok", "refused"}

DnsInit ==
    /\ pc = "idle"
    /\ \E ip \in {"", "ip_r"}, recs \in EmailRecordLists :
          ctx = [createEmptyContext EXCEPT !.domain = "new", !.dropletIp = ip,
                                           !.resendDnsRecords = recs]
    /\ activeCtx = FALSE
    /\ disk = AbsentFile
    /\ selectedIds = <<>>
    /\ i = 1
    /\ sp = ""
    /\ \E token \in {"", "tok"} :
          loc = [fn |-> "dns", calls |-> 0, log |-> <<>>, hostingerToken |-> token,
                 desired |-> <<>>, existingRecords |-> <<>>, idx |-> 1, cur |-> FreshSync,
                 refused |-> 0]
    /\ exitCode = -1
    /\ exitReason = ""
    /\ startLog = <<>>
    /\ settled = <<>>
    /\ running = {}
    /\ attemptCtx = createEmptyContext
    /\ thrownCtx = createEmptyContext
    /\ \E zone \in Zones : env = [zone |-> zone]

\* run returns or throws: the call is recorded.
DnsFinish(result, desired, cur, token) ==
    /\ pc' = "idle"
    /\ loc' = [loc EXCEPT
                 !.calls = @ + 1, !.hostingerToken = token,
                 !.desired = <<>>, !.existingRecords = <<>>, !.idx = 1, !.cur = FreshSync,
                 !.log = Append(@, [result |-> result, desired |-> desired,
                                    updates |-> cur.updates, creates |-> cur.creates,
                                    skips |-> cur.skips, rejected |-> cur.rejected,
                                    last |-> cur.last])]

\* run, lines 23-80: the IP prompt when the context has none, the desired
\* records, the token prompts, then the zone request or the printed table
DnsRun ==
    /\ pc = "idle"
    /\ loc.calls < MaxCalls
    /\ LET c == IF ctx.dropletIp = "" THEN [ctx EXCEPT !.dropletIp = "ip_r"] ELSE ctx
       IN  /\ ctx' = c
           /\ \E token \in (IF loc.hostingerToken = "" THEN {"", "tok"} ELSE {loc.hostingerToken}) :
                 IF token = ""
                 THEN DnsFinish("manual", allRecords(c), FreshSync, token)
                 ELSE /\ pc' = "dns.fetch"
                      /\ loc' = [loc EXCEPT !.hostingerToken = token, !.desired = allRecords(c)]
    /\ UNCHANGED env
    /\ DoFrame

\* syncDnsRecords, lines 94-101: the zone is fetched once
DnsFetch ==
    /\ pc = "dns.fetch"
    /\ \/ DnsFinish("threw", loc.desired, loc.cur, loc.hostingerToken)
       \/ /\ pc' = "dns.loop"
          /\ loc' = [loc EXCEPT !.existingRecords = env.zone, !.idx = 1]
    /\ UNCHANGED <<ctx, env>>
    /\ DoFrame

\* One write of the loop, a create or (overwrite) an update, and what the loop
\* does on its answer: a non-2xx answer is reported and the loop goes on, a
\* request that fails raises out of syncDnsRecords.
DnsWrite(record, overwrite) ==
    \E answer \in PutAnswers(loc) :
        LET cur == [loc.cur EXCEPT
                      !.updates = IF overwrite THEN @ + 1 ELSE @,
                      !.creates = IF overwrite THEN @ ELSE @ + 1,
                      !.rejected = IF answer = "refused" THEN @ + 1 ELSE @,
                      !.last = answer]
        IN  /\ env' = IF answer = "ok" THEN [env EXCEPT !.zone = putRecord(@, record, overwrite)]
                      ELSE env
            /\ IF goesOnAfter(answer)
               THEN /\ loc' = [loc EXCEPT !.idx = @ + 1, !.cur = cur,
                                          !.refused = IF answer = "refused" THEN @ + 1 ELSE @]
                    /\ UNCHANGED pc
               ELSE DnsFinish("threw", loc.desired, cur, loc.hostingerToken)

\* syncDnsRecords, lines 103-161: one desired record; a refused write is
\* reported and the loop goes on
DnsRecord ==
    /\ pc = "dns.loop"
    /\ loc.idx <= Len(loc.desired)
    /\ LET record == loc.desired[loc.idx]
           what == recordAction(loc.existingRecords, record)
       IN  \/ /\ what = "skip"
              /\ loc' = [loc EXCEPT !.idx = @ + 1, !.cur.skips = @ + 1]
              /\ UNCHANGED <<pc, env>>
           \/ /\ what = "update"
              /\ DnsWrite(record, TRUE)
           \/ /\ what = "create"
              /\ DnsWrite(record, FALSE)
    /\ UNCHANGED ctx
    /\ DoFrame

\* syncDnsRecords returns after the last record, and run with it
DnsReturn ==
    /\ pc = "dns.loop"
    /\ loc.idx > Len(loc.desired)
    /\ DnsFinish("ok", loc.desired, loc.cur, loc.hostingerToken)
    /\ UNCHANGED <<ctx, env>>
    /\ DoFrame

DnsNext ==
    \/ DnsRun
    \/ DnsFetch
    \/ DnsRecord
    \/ DnsReturn

DnsSpec == DnsInit /\ [][DnsNext]_vars

\* C18 as stated: when DNS synchronization has run twice with the same desired
\* records and the provider accepted every write of the first run, the second
\* run issued no update and no create call.
C18_Original ==
    (loc.fn = "dns" /\ Len(loc.log) = 2
       /\ loc.log[1].result = "ok" /\ loc.log[2].result = "ok"
       /\ loc.log[1].desired = loc.log[2].desired /\ loc.log[1].rejected = 0)
    => (loc.log[2].updates = 0 /\ loc.log[2].creates = 0)

\* C19 as stated: once the context holds email records (stored by the email
\* step, in this run or in the run whose saved context was loaded), no step of
\* the run leaves the list without one of them.
C19_Original ==
    [][(activeCtx /\ activeCtx' /\ ctx.resendDnsRecords # <<>>)
         => Range(ctx.resendDnsRecords) \subseteq Range(ctx'.resendDnsRecords)]_vars

\* ---------------------------------------------------------------------------
\* The database step (neon.ts run) alone, with the provider's side recorded:
\* env.dbs are the project's databases, env.answers[d] the answers given to
\* the creation calls for database d, env.failed the database whose creation
\* made the step throw (0: none).
\* ---------------------------------------------------------------------------
NeonFrame == UNCHANGED <<activeCtx, disk, selectedIds, i, exitCode, exitReason, startLog,
                         settled, running, attemptCtx, thrownCtx>>

NeonInit ==
    /\ pc = "step"
    /\ ctx = [createEmptyContext EXCEPT !.domain = "new", !.neonApiToken = "new"]
    /\ activeCtx = TRUE
    /\ disk = AbsentFile
    /\ selectedIds = <<"neon">>
    /\ i = 1
    /\ sp = "begin"
    /\ loc = InitLoc
    /\ exitCode = -1
    /\ exitReason = ""
    /\ startLog = <<>>
    /\ settled = <<>>
    /\ running = {}
    /\ attemptCtx = createEmptyContext
    /\ thrownCtx = createEmptyContext
    /\ \E dbs \in {{}, {DB_NAMES[1]}, Range(DB_NAMES)} :
          env = [dbs |-> dbs, answers |-> [d \in 1..Len(DB_NAMES) |-> <<>>], failed |-> 0]

\* run up to the database loop: the list request shows the project's
\* databases, or none when it fails (line 204).
NeonResume ==
    /\ pc = "step"
    /\ sp \notin {"neon.createDb", "returned", "threw"}
    /\ \E r \in neonRun(sp, ctx, loc) :
          /\ r.loc.existing \in {{}, env.dbs}
          /\ sp' = r.sp
          /\ ctx' = r.ctx
          /\ loc' = r.loc
    /\ UNCHANGED <<pc, env>>
    /\ NeonFrame

\* One creation call (lines 214-220) and the loop's reaction to the answer; a
\* database the project already has is refused.
NeonCreateDb ==
    /\ pc = "step"
    /\ sp = "neon.createDb"
    /\ \E answer \in (IF DB_NAMES[loc.db] \in env.dbs THEN {"error"} ELSE DbAnswers) :
          LET r == createDbResult(answer, ctx, loc)
          IN  /\ sp' = r.sp
              /\ ctx' = r.ctx
              /\ loc' = r.loc
              /\ env' = [env EXCEPT
                           !.answers[loc.db] = Append(@, answer),
                           !.dbs = IF answer = "ok" THEN @ \cup {DB_NAMES[loc.db]} ELSE @,
                           !.failed = IF r.sp = "threw" THEN loc.db ELSE @]
    /\ UNCHANGED pc
    /\ NeonFrame

NeonNext ==
    \/ NeonResume
    \/ NeonCreateDb

NeonSpec == NeonInit /\ [][NeonNext]_vars

\* The answers to the creation calls for database d: k conflicts, then a 2xx.
ConflictsThenOk(d, k) ==
    /\ Len(env.answers[d]) = k + 1
    /\ \A n \in 1..k : env.answers[d][n] = "conflict"
    /\ env.answers[d][k + 1] = "ok"

\* C20: when the creation calls for a database met a conflict on the first k
\* attempts (k from 0 to 4) and then a 2xx, the database exists, its
\* connection string is stored, the step has not failed on it, and no further
\* creation call was issued for it; while fewer than five calls met a conflict
\* the step goes on to the next call instead of failing; and when every
\* database was created this way the step has returned.
C20_ConflictsAreRetried ==
    pc = "step" =>
        /\ \A d \in 1..Len(DB_NAMES) :
              LET h == env.answers[d]
              IN  /\ Len(h) <= MaxDbAttempts
                  /\ \A n \in 1..Len(h) : (h[n] # "conflict") => n = Len(h)
                  /\ (h # <<>> /\ h[Len(h)] = "ok") =>
                        /\ DB_NAMES[d] \in env.dbs
                        /\ ctx.neonDsns[toDsnKey(DB_NAMES[d])] = Dsn(DB_NAMES[d])
                        /\ env.failed # d
                  /\ (h # <<>> /\ h[Len(h)] = "conflict" /\ Len(h) < MaxDbAttempts) =>
                        (sp = "neon.createDb" /\ loc.db = d /\ loc.attempt = Len(h))
        /\ (\A d \in 1..Len(DB_NAMES) : \E k \in 0..(MaxDbAttempts - 1) : ConflictsThenOk(d, k))
              => sp = "returned"

C20_Witness ==
    /\ pc = "step"
    /\ sp = "returned"
    /\ ConflictsThenOk(1, 2)
    /\ ConflictsThenOk(2, MaxDbAttempts - 1)
    /\ ConflictsThenOk(3, 0)

\* C21 as stated: the database step issues a create-project call only while
\* the context holds no project id.
C21_Original ==
    (pc = "step" /\ sp = "neon.create") => ctx.neonProjectId = ""

\* C22 as stated: the database step issues no creation call for a database
\* the branch already has.
C22_Original ==
    (pc = "step" /\ sp = "neon.createDb") => DB_NAMES[loc.db] \notin env.dbs

\* The positions of main() after the passphrase prompts, and those after the
\* derivation at lines 258-262.
AfterPassphrasePcs ==
    {"adminEmailQ", "adminPasswordQ", "loop", "again", "step", "retryQ", "contQ"}
        \cup Range(TokenPrompts)
AfterDerivationPcs == {"loop", "again", "step", "retryQ", "contQ"}

DerivedFrom(map, c) ==
    \A n \in DOMAIN deriveAllSecrets(c.passphrase, c.includeSite) :
        n \in DOMAIN map /\ map[n] = deriveAllSecrets(c.passphrase, c.includeSite)[n]

\* C24: once the passphrase prompts are answered no action changes
\* ctx.passphrase; from the derivation on ctx.derivedSecrets is deriveAllSecrets
\* of that passphrase; and the secrets map a step stores in the context, which
\* is what it writes to the CI provider, holds deriveAllSecrets of that
\* passphrase.
C24_OnePassphrasePerRun ==
    [][ /\ pc \in AfterPassphrasePcs => ctx'.passphrase = ctx.passphrase
        /\ pc' \in AfterDerivationPcs =>
              ctx'.derivedSecrets = deriveAllSecrets(ctx'.passphrase, ctx'.includeSite)
        /\ (pc = "step" /\ ctx'.githubSecrets # ctx.githubSecrets) =>
              DerivedFrom(ctx'.githubSecrets, ctx')
        /\ (pc' = "step" /\ sp' = "secrets.set") => DerivedFrom(ctx'.githubSecrets, ctx') ]_vars

C24_Witness ==
    /\ pc = "step"
    /\ sp = "secrets.set"
    /\ ctx.sshUser = "deploy"
    /\ ctx.passphrase = NewPassphrase
    /\ ctx.githubSecrets["CIAM_KRATOS_SECRET_COOKIE"].key = NewPassphrase
    /\ ctx.derivedSecrets["CIAM_KRATOS_SECRET_COOKIE"].key = NewPassphrase

\* ---------------------------------------------------------------------------
\* The derivation functions (crypto.ts) alone: a passphrase, a secret name and
\* a byte length are drawn, then deriveSecret is called with them and
\* deriveAllSecrets with the passphrase and each value of the flag.
\* ---------------------------------------------------------------------------
Passphrases == {"correct horse battery staple", OldPassphrase, NewPassphrase}
ByteLengths == {8, CipherBytes, CookieBytes}

DeriveInit ==
    /\ pc = "derive"
    /\ \E P \in Passphrases, flag \in BOOLEAN :
          ctx = [createEmptyContext EXCEPT !.passphrase = P, !.includeSite = flag]
    /\ activeCtx = FALSE
    /\ disk = AbsentFile
    /\ selectedIds = <<>>
    /\ i = 1
    /\ sp = ""
    /\ \E N \in BaseSecretNames \cup SiteSecretNames, B \in ByteLengths :
          loc = [name |-> N, bytes |-> B, secret |-> <<>>, withSite |-> <<>>, withoutSite |-> <<>>]
    /\ exitCode = -1
    /\ exitReason = ""
    /\ startLog = <<>>
    /\ settled = <<>>
    /\ running = {}
    /\ attemptCtx = createEmptyContext
    /\ thrownCtx = createEmptyContext
    /\ env = [gh |-> TRUE, sshKeygen |-> TRUE]

DeriveApply ==
    /\ pc = "derive"
    /\ pc' = "derived"
    /\ loc' = [loc EXCEPT !.secret = deriveSecret(ctx.passphrase, loc.name, loc.bytes),
                          !.withSite = deriveAllSecrets(ctx.passphrase, TRUE),
                          !.withoutSite = deriveAllSecrets(ctx.passphrase, FALSE)]
    /\ ctx' = [ctx EXCEPT !.derivedSecrets = deriveAllSecrets(ctx.passphrase, ctx.includeSite)]
    /\ UNCHANGED <<activeCtx, disk, selectedIds, i, sp, exitCode, exitReason, startLog,
                   settled, running, attemptCtx, thrownCtx, env>>

DeriveNext == DeriveApply

DeriveSpec == DeriveInit /\ [][DeriveNext]_vars

\* The catalog of the derived secrets, by name.
FullCatalog ==
    {"CIAM_KRATOS_SECRET_COOKIE", "CIAM_KRATOS_SECRET_CIPHER",
     "IAM_KRATOS_SECRET_COOKIE", "IAM_KRATOS_SECRET_CIPHER",
     "CIAM_HYDRA_SECRET_SYSTEM", "CIAM_HYDRA_PAIRWISE_SALT",
     "IAM_HYDRA_SECRET_SYSTEM", "IAM_HYDRA_PAIRWISE_SALT",
     "ATHENA_CIAM_OAUTH_CLIENT_SECRET", "ATHENA_IAM_OAUTH_CLIENT_SECRET",
     "PGADMIN_OAUTH_CLIENT_SECRET", "SITE_CIAM_CLIENT_SECRET", "SITE_IAM_CLIENT_SECRET"}

\* C25: with the flag set deriveAllSecrets returns exactly the full catalog,
\* each entry derived from the passphrase under its own name; with the flag
\* cleared it leaves out exactly the two site entries, and every other entry
\* is the same in both results.
C25_FlagOmitsExactlyTheSiteEntries ==
    pc = "derived" =>
        /\ DOMAIN loc.withSite = FullCatalog
        /\ DOMAIN loc.withoutSite = FullCatalog \ {"SITE_CIAM_CLIENT_SECRET", "SITE_IAM_CLIENT_SECRET"}
        /\ \A n \in DOMAIN loc.withoutSite : loc.withoutSite[n] = loc.withSite[n]
        /\ \A n \in DOMAIN loc.withSite :
              /\ loc.withSite[n].key = ctx.passphrase
              /\ loc.withSite[n].salt = <<"olympusoss", n>>
        /\ ctx.derivedSecrets = (IF ctx.includeSite THEN loc.withSite ELSE loc.withoutSite)

C25_Witness ==
    /\ pc = "derived"
    /\ ctx.passphrase = "correct horse battery staple"
    /\ "SITE_IAM_CLIENT_SECRET" \in DOMAIN loc.withSite
    /\ "SITE_IAM_CLIENT_SECRET" \notin DOMAIN loc.withoutSite
    /\ ~ctx.includeSite

\* C26 as stated: a derivation under a cipher-class name has 32 hexadecimal
\* characters whatever byte length is passed for it.
C26_Original ==
    (pc = "derived" /\ loc.name \in {"CIAM_KRATOS_SECRET_CIPHER", "IAM_KRATOS_SECRET_CIPHER"})
        => loc.secret.hexLen = 32

\* C26 as amended: in the maps deriveAllSecrets returns, the cipher-class
\* secrets have 32 hexadecimal characters and every other secret 64;
\* deriveSecret itself returns two characters per byte of the length passed.
C26_CipherLengthInTheCatalog ==
    pc = "derived" =>
        /\ \A n \in DOMAIN loc.withSite :
              loc.withSite[n].hexLen =
                  (IF n \in {"CIAM_KRATOS_SECRET_CIPHER", "IAM_KRATOS_SECRET_CIPHER"} THEN 32 ELSE 64)
        /\ \A n \in DOMAIN loc.withoutSite :
              loc.withoutSite[n].hexLen =
                  (IF n \in {"CIAM_KRATOS_SECRET_CIPHER", "IAM_KRATOS_SECRET_CIPHER"} THEN 32 ELSE 64)
        /\ loc.secret.hexLen = 2 * loc.bytes

C26_Witness ==
    /\ pc = "derived"
    /\ loc.name = "CIAM_KRATOS_SECRET_CIPHER"
    /\ loc.bytes = 32
    /\ loc.secret.hexLen = 64
    /\ loc.withSite["CIAM_KRATOS_SECRET_CIPHER"].hexLen = 32

\* ---------------------------------------------------------------------------
\* The secrets step's write loop (github-secrets run, lines 60-87) alone:
\* env.store is what the organisation's secrets hold ("" for unset),
\* env.calls the set-secret calls issued, loc the loop position, the warnings
\* and the lines printed.
\* ---------------------------------------------------------------------------
DsnSecretNames ==
    <<"NEON_CIAM_KRATOS_DSN", "NEON_CIAM_HYDRA_DSN", "NEON_IAM_KRATOS_DSN", "NEON_IAM_HYDRA_DSN">>

\* The order of deriveAllSecrets' entries (crypto.ts 30-58).
DerivedOrder(includeSite) ==
    <<"CIAM_KRATOS_SECRET_COOKIE", "CIAM_KRATOS_SECRET_CIPHER",
      "IAM_KRATOS_SECRET_COOKIE", "IAM_KRATOS_SECRET_CIPHER",
      "CIAM_HYDRA_SECRET_SYSTEM", "CIAM_HYDRA_PAIRWISE_SALT",
      "IAM_HYDRA_SECRET_SYSTEM", "IAM_HYDRA_PAIRWISE_SALT",
      "ATHENA_CIAM_OAUTH_CLIENT_SECRET", "ATHENA_IAM_OAUTH_CLIENT_SECRET",
      "PGADMIN_OAUTH_CLIENT_SECRET">>
    \o (IF includeSite THEN <<"SITE_CIAM_CLIENT_SECRET", "SITE_IAM_CLIENT_SECRET">> ELSE <<>>)

\* Object.entries(secrets): the entries in the order the map is built
SecretsOrder(c) ==
    <<"DEPLOY_SSH_KEY", "GHCR_PAT">> \o DsnSecretNames \o DerivedOrder(c.includeSite)
        \o <<"RESEND_API_KEY", "ADMIN_PASSWORD">>

\* The hexadecimal string of a derived secret, as the map holds it.
hex(secret) == "hex:" \o secret.key \o ":" \o secret.salt[2]

\* lines 61-71: the local map 'secrets', every value a string
secretsText(c, sshKey) ==
    [n \in DOMAIN secretsMap(c, sshKey) |->
        IF n \in DOMAIN deriveAllSecrets(c.passphrase, c.includeSite)
        THEN hex(secretsMap(c, sshKey)[n]) ELSE secretsMap(c, sshKey)[n]]

\* line 79, if (!value)
writesBlank(value) == FALSE
isEmpty(value) == value = ""

\* gh secret set: the secret is overwritten
setSecret(store, name, value) == [store EXCEPT ![name] = value]

Stores(map) ==
    {[n \in DOMAIN map |-> ""], map, [n \in DOMAIN map |-> "other"]}

SecInit ==
    /\ pc = "secrets.build"
    /\ \E pat \in {"", "new"}, key \in {"", "new"}, pw \in {"", "new"}, dsns \in BOOLEAN,
          site \in BOOLEAN :
          ctx = [createEmptyContext EXCEPT
                   !.passphrase = NewPassphrase, !.includeSite = site, !.repoOwner = "new",
                   !.ghcrPat = pat, !.resendApiKey = key, !.adminPassword = pw,
                   !.neonDsns = IF dsns
                                THEN [k \in DOMAIN @ |->
                                        Dsn(CHOOSE d \in Range(DB_NAMES) : toDsnKey(d) = k)]
                                ELSE @]
    /\ activeCtx = TRUE
    /\ disk = AbsentFile
    /\ selectedIds = <<"github-secrets">>
    /\ i = 1
    /\ sp = ""
    /\ \E sshKey \in {"", "pasted"} :
          loc = [sshKey |-> sshKey, secrets |-> <<>>, idx |-> 1, warned |-> {}, printed |-> {},
                 failedAt |-> ""]
    /\ exitCode = -1
    /\ exitReason = ""
    /\ startLog = <<>>
    /\ settled = <<>>
    /\ running = {}
    /\ attemptCtx = createEmptyContext
    /\ thrownCtx = createEmptyContext
    /\ \E store \in Stores(secretsText(ctx, loc.sshKey)) :
          env = [store |-> store, before |-> store, calls |-> <<>>]

SecFrame == UNCHANGED <<activeCtx, disk, selectedIds, i, sp, exitCode, exitReason, startLog,
                        settled, running, attemptCtx, thrownCtx>>

\* lines 60-76: the map is built and stored in the context
SecBuild ==
    /\ pc = "secrets.build"
    /\ pc' = "secrets.loop"
    /\ ctx' = [ctx EXCEPT !.githubSecrets = secretsMap(ctx, loc.sshKey)]
    /\ loc' = [loc EXCEPT !.secrets = secretsText(ctx, loc.sshKey)]
    /\ UNCHANGED env
    /\ SecFrame

\* lines 78-85: one entry of the map; an empty value is skipped with a
\* warning, any other is set and then printed; a failed call throws
SecEntry ==
    /\ pc = "secrets.loop"
    /\ loc.idx <= Len(SecretsOrder(ctx))
    /\ LET name == SecretsOrder(ctx)[loc.idx]
           value == loc.secrets[name]
       IN  IF isEmpty(value)
           THEN /\ loc' = [loc EXCEPT !.idx = @ + 1, !.warned = @ \cup {name}]
                /\ UNCHANGED <<pc, env>>
           ELSE \/ /\ env' = [env EXCEPT !.store = setSecret(@, name, value),
                                         !.calls = Append(@, [name |-> name, value |-> value])]
                   /\ loc' = [loc EXCEPT !.idx = @ + 1,
                                         !.printed = @ \cup {[name |-> name, text |-> value]}]
                   /\ UNCHANGED pc
                \/ /\ env' = [env EXCEPT !.calls = Append(@, [name |-> name, value |-> value])]
                   /\ loc' = [loc EXCEPT !.failedAt = name]
                   /\ pc' = "threw"
    /\ UNCHANGED ctx
    /\ SecFrame

SecReturn ==
    /\ pc = "secrets.loop"
    /\ loc.idx > Len(SecretsOrder(ctx))
    /\ pc' = "returned"
    /\ UNCHANGED <<ctx, loc, env>>
    /\ SecFrame

SecNext ==
    \/ SecBuild
    \/ SecEntry
    \/ SecReturn

SecSpec == SecInit /\ [][SecNext]_vars

CallsFor(name) == {k \in 1..Len(env.calls) : env.calls[k].name = name}

\* C27: no set-secret call carries an empty value; of the entries the loop has
\* passed, every empty one was skipped with a warning and without a call, and
\* every other one was written by exactly one call with its value, whatever
\* the secret held before; the step throws only on a call that failed, never
\* on an empty entry; and a step that returned has passed every entry.
C27_WritesAllButEmptyEntries ==
    pc \in {"secrets.loop", "returned", "threw"} =>
        /\ \A k \in 1..Len(env.calls) : env.calls[k].value # ""
        /\ \A k \in 1..(loc.idx - 1) :
              LET name == SecretsOrder(ctx)[k]
                  value == loc.secrets[name]
              IN  IF value = ""
                  THEN name \in loc.warned /\ CallsFor(name) = {}
                  ELSE /\ name \notin loc.warned
                       /\ Cardinality(CallsFor(name)) = 1
                       /\ \A c \in CallsFor(name) : env.calls[c].value = value
                       /\ env.store[name] = value
        /\ pc = "threw" =>
              (loc.failedAt # "" /\ loc.secrets[loc.failedAt] # ""
                 /\ env.calls[Len(env.calls)].name = loc.failedAt)
        /\ pc = "returned" => loc.idx = Len(SecretsOrder(ctx)) + 1

C27_Witness ==
    /\ pc = "returned"
    /\ "GHCR_PAT" \in loc.warned
    /\ "DEPLOY_SSH_KEY" \in loc.warned
    /\ CallsFor("ADMIN_PASSWORD") # {}
    /\ env.before["ADMIN_PASSWORD"] = loc.secrets["ADMIN_PASSWORD"]
    /\ env.store["GHCR_PAT"] = ""

\* C28 as stated: no line the step prints shows a database connection string
\* with its password.
C28_Original ==
    \A p \in loc.printed :
        p.name \in Range(DsnSecretNames) => p.text # loc.secrets[p.name]

\* C30: when the assign request is answered 2xx or with "is already
\* assigned", handleReservedIp returns and reservedIp and dropletIp are the
\* IP of the request; on any other failure it throws and reservedIp and
\* dropletIp are what they were before.
C30_AlreadyAssignedIsSuccess ==
    loc.fn = "rip" =>
        \A k \in 1..Len(loc.log) :
            LET e == loc.log[k]
            IN  /\ e.answer \in {"ok", "already"} =>
                      /\ e.result = "ok"
                      /\ e.reservedIp = e.value /\ e.dropletIp = e.value
                      /\ e.value # ""
                /\ e.answer = "error" =>
                      /\ e.result = "threw"
                      /\ e.reservedIp = e.reservedIpBefore
                      /\ e.dropletIp = e.dropletIpBefore

C30_Witness ==
    /\ loc.fn = "rip"
    /\ Len(loc.log) = 2
    /\ loc.log[1].answer = "error"
    /\ loc.log[2].answer = "already"
    /\ ctx.reservedIp = loc.log[2].value
    /\ ctx.reservedIp # ""

\* C29 as stated: a passphrase newly entered at a passphrase prompt is taken
\* to the confirmation prompt before anything else happens.
C29_Original ==
    [][(pc \in {"passQ", "passPrefilledQ"} /\ ctx'.passphrase # ctx.passphrase)
         => pc' = "confirmQ"]_vars

\* C29 as amended: a passphrase entered at the hidden prompt goes to the
\* confirmation prompt; a second entry that differs leads to the retry
\* question with nothing changed and nothing saved, and from there to a new
\* passphrase prompt or to exit; the run goes on only after an identical
\* second entry, so the derivation and the steps start only with a passphrase
\* that was confirmed or that came through the prefilled prompt.
C29_MismatchIsRejected ==
    [][ /\ pc = "passQ" => pc' \in {"confirmQ", "exited"}
        /\ pc = "confirmQ" =>
              \/ pc' = "exited"
              \/ /\ pc' = "passRetryQ"
                 /\ loc'.confirmPass # ctx.passphrase
                 /\ ctx' = ctx /\ disk' = disk
              \/ /\ pc' \in AfterPassphrasePcs
                 /\ loc'.confirmPass = ctx.passphrase
                 /\ ctx'.passphrase = ctx.passphrase
        /\ pc = "passRetryQ" => (pc' \in {"passQ", "exited"} /\ (pc' = "passQ" => ctx' = ctx))
        /\ (pc' = "loop" /\ pc \notin AfterDerivationPcs) =>
              loc'.confirmPass \in {"", ctx'.passphrase} ]_vars

C29_Witness ==
    /\ pc = "passRetryQ"
    /\ loc.confirmPass = OldPassphrase
    /\ ctx.passphrase = NewPassphrase
    /\ ctx.derivedSecrets = EmptyMap

\* ---------------------------------------------------------------------------
\* C31.  Every assign request of handleReservedIp names an IP that the listing
\* of the same call showed attached to no droplet, or an IP that the call
\* created itself and that the listing did not hold; never an IP the listing
\* showed attached to another droplet.
\* ---------------------------------------------------------------------------
C31_AssignsOnlyFreeOrCreatedIps ==
    pc = "rip.assign" =>
        /\ \/ \E r \in loc.cur.listed : r.ip = loc.cur.ip /\ r.dropletId = NoDroplet
           \/ loc.cur.creates > 0 /\ \A r \in loc.cur.listed : r.ip # loc.cur.ip
        /\ ~ \E r \in loc.cur.listed : r.ip = loc.cur.ip /\ r.dropletId # NoDroplet

\* An assign request is about to go out for a listed free IP, while the
\* listing also held an IP of another droplet.
C31_Witness ==
    /\ pc = "rip.assign"
    /\ loc.cur.creates = 0
    /\ \E r \in loc.cur.listed : r.ip = loc.cur.ip /\ r.dropletId = NoDroplet
    /\ \E r \in loc.cur.listed : r.dropletId = OtherDroplet

\* ---------------------------------------------------------------------------
\* C32.  Within one run of the database step, for every database: at most
\* MaxDbAttempts creation calls are issued; a call answered with a failure
\* other than a conflict is the last call for it and the step has failed on
\* it; so has a conflict on the last allowed attempt; and while the last
\* creation call for a database has not succeeded, no connection string is
\* stored for it and no call is issued for a later database.
\* ---------------------------------------------------------------------------
C32_OnlyConflictsAreRetried ==
    pc = "step" =>
        \A d \in 1..Len(DB_NAMES) :
            LET h == env.answers[d]
            IN  /\ Len(h) <= MaxDbAttempts
                /\ \A n \in 1..Len(h) :
                      h[n] = "error" => (n = Len(h) /\ sp = "threw" /\ env.failed = d)
                /\ (Len(h) = MaxDbAttempts /\ h[MaxDbAttempts] = "conflict")
                      => (sp = "threw" /\ env.failed = d)
                /\ (h # <<>> /\ h[Len(h)] # "ok") =>
                      /\ ctx.neonDsns[toDsnKey(DB_NAMES[d])] = ""
                      /\ \A later \in (d + 1)..Len(DB_NAMES) : env.answers[later] = <<>>
                      /\ sp \in {"neon.createDb", "threw"}
                      /\ sp = "neon.createDb" => (loc.db = d /\ loc.attempt = Len(h))

\* The first database was created, the second met a conflict on every one of
\* the allowed attempts: the step has failed and the third was never tried.
C32_Witness ==
    /\ pc = "step"
    /\ sp = "threw"
    /\ env.answers[1] = <<"conflict", "ok">>
    /\ Len(env.answers[2]) = MaxDbAttempts
    /\ \A n \in 1..MaxDbAttempts : env.answers[2][n] = "conflict"
    /\ env.answers[3] = <<>>

\* ---------------------------------------------------------------------------
\* waitForProject (neon.ts 296-314) and the check that follows its call (lines
\* 188-195), on their own.  loc holds the loop variable i, the number of
\* operations-list requests sent, the answer to the last one and how
\* waitForProject ended; env holds what the create-project response carried.
\* ---------------------------------------------------------------------------

\* for (let i = 0; i < 20; i++)
PollBudget == 20

\* The answers to one operations-list request: an operation is running or
\* scheduling, none is, a non-2xx answer, and a request that fails without an
\* answer (fetch rejects).
PollAnswers == {"running", "idle", "notOk", "rejected"}

\* i++ and the loop condition
pollsWithoutEnd(n) == TRUE
pollsAgain(n) == n + 1 < PollBudget

WaitInit ==
    /\ pc = "step"
    /\ \E orgId \in {"", "org1"} :
          ctx = [createEmptyContext EXCEPT !.domain = "new", !.neonApiToken = "new",
                                           !.neonOrgId = orgId, !.neonProjectId = "proj2"]
    /\ activeCtx = TRUE
    /\ disk = AbsentFile
    /\ selectedIds = <<"neon">>
    /\ i = 1
    /\ sp = "neon.wait"
    /\ loc = [i |-> 0, requests |-> 0, last |-> "", ended |-> ""]
    /\ exitCode = -1
    /\ exitReason = ""
    /\ startLog = <<>>
    /\ settled = <<>>
    /\ running = {}
    /\ attemptCtx = createEmptyContext
    /\ thrownCtx = createEmptyContext
    /\ \E info \in {"complete", "missing"} : env = [info |-> info]

\* One pass of the loop: the request, and what the loop does with the answer.
WaitPoll ==
    /\ pc = "step"
    /\ sp = "neon.wait"
    /\ \E answer \in PollAnswers :
          LET l == [loc EXCEPT !.requests = @ + 1, !.last = answer]
          IN  CASE answer = "rejected" ->
                      sp' = "threw" /\ loc' = [l EXCEPT !.ended = "threw"]
                [] answer \in {"notOk", "idle"} ->
                      sp' = "neon.waited" /\ loc' = [l EXCEPT !.ended = "returned"]
                [] answer = "running" /\ pollsAgain(loc.i) ->
                      sp' = "neon.wait" /\ loc' = [l EXCEPT !.i = @ + 1]
                [] OTHER ->
                      sp' = "neon.waited" /\ loc' = [l EXCEPT !.i = @ + 1, !.ended = "returned"]
    /\ UNCHANGED <<pc, ctx, env>>
    /\ NeonFrame

\* run, lines 193-195: without branch, host, role and password the step fails.
WaitCheck ==
    /\ pc = "step"
    /\ sp = "neon.waited"
    /\ sp' = IF env.info = "complete" THEN "neon.dbs" ELSE "threw"
    /\ UNCHANGED <<pc, ctx, loc, env>>
    /\ NeonFrame

WaitNext ==
    \/ WaitPoll
    \/ WaitCheck

WaitSpec == WaitInit /\ [][WaitNext]_vars

\* C33 as stated: at most PollBudget requests are sent, no request follows an
\* answer without a running operation, and the step never fails here: it
\* always goes on to database creation.
C33_Original ==
    /\ loc.requests <= PollBudget
    /\ (loc.last \in {"idle", "notOk", "rejected"}) => sp # "neon.wait"
    /\ sp # "threw"

\* C33, amended: at most PollBudget requests are sent; a request is sent only
\* while every answer so far showed a running operation; waitForProject
\* returns without an error on the first answer with no running operation, on
\* a non-2xx answer and when the budget is used up, and raises only when a
\* request fails without an answer; after it returned the step goes on to the
\* database listing exactly when the connection info is complete.
C33_PollingIsBoundedAndLenient ==
    /\ loc.requests <= PollBudget
    /\ sp = "neon.wait" => (loc.ended = "" /\ loc.last \in {"", "running"} /\ loc.requests = loc.i)
    /\ loc.last \in {"idle", "notOk"} => loc.ended = "returned"
    /\ (loc.last = "running" /\ loc.requests = PollBudget) => loc.ended = "returned"
    /\ loc.ended = "threw" <=> loc.last = "rejected"
    /\ sp = "neon.dbs" => (loc.ended = "returned" /\ env.info = "complete")
    /\ sp = "threw" => (loc.ended = "threw" \/ (loc.ended = "returned" /\ env.info = "missing"))

\* Every one of the PollBudget requests showed a running operation:
\* waitForProject returned and the step is at the database listing.
C33_Witness ==
    /\ sp = "neon.dbs"
    /\ loc.requests = PollBudget
    /\ loc.last = "running"
    /\ loc.ended = "returned"

\* ---------------------------------------------------------------------------
\* createDroplet's wait for SSH (droplet.ts 228-249) and the rest of the
\* droplet step after it.  loc is the step's locals with the loop variable i,
\* the number of connection attempts, the exit code of the last one and what
\* the loop printed; env holds whether the droplet answers SSH yet and the
\* position at which the step failed.
\* ---------------------------------------------------------------------------

\* for (let i = 0; i < 30; i++)
SshBudget == 30

\* exec("ssh", ...) never rejects: exit code 0, or another one
SshExitCodes == {0, 255}

\* A loop that gives the step up when the last attempt failed.
sshPollFatal(code, c, l) ==
    IF code = 0 THEN dropletAfterChoice(c, [l EXCEPT !.ready = TRUE])
    ELSE IF l.i + 1 < SshBudget THEN R("droplet.sshPoll", c, [l EXCEPT !.i = @ + 1])
    ELSE R("threw", c, [l EXCEPT !.i = @ + 1])

\* Lines 239-248: what the loop does with the exit code of one attempt;
\* createDroplet returns the droplet id on success and after the warning.
sshPollResult(code, c, l) ==
    IF code = 0 THEN dropletAfterChoice(c, [l EXCEPT !.ready = TRUE])
    ELSE IF l.i + 1 < SshBudget THEN R("droplet.sshPoll", c, [l EXCEPT !.i = @ + 1])
    ELSE dropletAfterChoice(c, [l EXCEPT !.i = @ + 1, !.warned = TRUE])

SshInit ==
    /\ pc = "step"
    /\ ctx = [WithKeyPaths(createEmptyContext) EXCEPT !.doToken = "new",
                 !.dropletName = "olympusoss-prod", !.dropletIp = "ip_e"]
    /\ activeCtx = TRUE
    /\ disk = AbsentFile
    /\ selectedIds = <<"droplet">>
    /\ i = 1
    /\ sp = "droplet.sshPoll"
    /\ loc = [i |-> 0, attempts |-> 0, lastExit |-> -1, ready |-> FALSE, warned |-> FALSE]
                @@ [InitLoc EXCEPT !.dropletId = 2, !.isNew = TRUE]
    /\ exitCode = -1
    /\ exitReason = ""
    /\ startLog = <<>>
    /\ settled = <<>>
    /\ running = {}
    /\ attemptCtx = createEmptyContext
    /\ thrownCtx = createEmptyContext
    /\ env = [up |-> FALSE, failedAt |-> ""]

\* One connection attempt: it can succeed once the droplet answers SSH, which
\* it starts to do at some time of its own.
SshPoll ==
    /\ pc = "step"
    /\ sp = "droplet.sshPoll"
    /\ \E up \in {env.up, TRUE} :
       \E code \in (IF up THEN SshExitCodes ELSE SshExitCodes \ {0}) :
          LET r == sshPollResult(code, ctx, [loc EXCEPT !.attempts = @ + 1, !.lastExit = code])
          IN  /\ sp' = r.sp
              /\ ctx' = r.ctx
              /\ loc' = r.loc
              /\ env' = [up |-> up, failedAt |-> IF r.sp = "threw" THEN sp ELSE env.failedAt]
    /\ UNCHANGED pc
    /\ NeonFrame

\* run after createDroplet returned, up to verifyDeployKey.
SshResume ==
    /\ pc = "step"
    /\ sp \notin {"droplet.sshPoll", "droplet.verifyKey", "returned", "threw"}
    /\ \E r \in dropletRun(sp, ctx, loc), up \in {env.up, TRUE} :
          /\ sp' = r.sp
          /\ ctx' = r.ctx
          /\ loc' = r.loc
          /\ env' = [up |-> up, failedAt |-> IF r.sp = "threw" THEN sp ELSE env.failedAt]
    /\ UNCHANGED pc
    /\ NeonFrame

\* verifyDeployKey, lines 409-419: one more connection, whose failure is an error.
SshVerify ==
    /\ pc = "step"
    /\ sp = "droplet.verifyKey"
    /\ \E up \in {env.up, TRUE} :
       \E r \in dropletRun(sp, ctx, loc) :
          /\ r.sp = "returned" => up
          /\ sp' = r.sp
          /\ ctx' = r.ctx
          /\ loc' = r.loc
          /\ env' = [up |-> up, failedAt |-> IF r.sp = "threw" THEN sp ELSE env.failedAt]
    /\ UNCHANGED pc
    /\ NeonFrame

SshNext ==
    \/ SshPoll
    \/ SshResume
    \/ SshVerify

SshSpec == SshInit /\ [][SshNext]_vars

\* C34: the wait for SSH makes at most SshBudget connection attempts; it goes
\* on to another attempt only while every attempt so far has failed; it ends
\* with "ready" on the first success and with the warning exactly when all
\* SshBudget attempts failed; and the step never fails at the wait: whenever
\* the step has failed, it failed at a later call.
C34_SshPollingIsBoundedAndNonFatal ==
    /\ loc.attempts <= SshBudget
    /\ sp = "droplet.sshPoll" =>
          (~ loc.ready /\ ~ loc.warned /\ loc.attempts = loc.i /\ loc.lastExit # 0)
    /\ loc.ready <=> loc.lastExit = 0
    /\ loc.warned <=> (loc.attempts = SshBudget /\ loc.lastExit # 0)
    /\ sp = "threw" => (env.failedAt # "droplet.sshPoll" /\ (loc.ready \/ loc.warned))

\* All SshBudget attempts failed, the warning was printed, and the step has
\* returned all the same.
C34_Witness ==
    /\ sp = "returned"
    /\ loc.warned
    /\ loc.attempts = SshBudget
    /\ env.failedAt = ""

\* ---------------------------------------------------------------------------
\* C35 as stated: a prompt for a common input is shown only when a selected
\* step lists that input in its needs: the domain prompt for "domain", the
\* passphrase prompts for "passphrase", the admin prompts for "adminPassword".
\* ---------------------------------------------------------------------------
C35_Original ==
    /\ pc = "domainQ" => "domain" \in AllNeeds(selectedIds)
    /\ pc \in {"passQ", "passPrefilledQ", "confirmQ", "passRetryQ"}
          => "passphrase" \in AllNeeds(selectedIds)
    /\ pc \in {"adminEmailQ", "adminPasswordQ"} => "adminPassword" \in AllNeeds(selectedIds)

\* ---------------------------------------------------------------------------
\* C36 as stated: a file written by saveSettings (every key of the context
\* with a value), loaded into a freshly created empty context, restores every
\* field but selectedSteps.
\* ---------------------------------------------------------------------------
C36_Original ==
    (/\ pc = "loaded"
     /\ attemptCtx = createEmptyContext
     /\ disk.kind = "json"
     /\ \A key \in Keys : disk.data[key].st = "val")
        => \A key \in Keys \ {"selectedSteps"} : ctx[key] = disk.data[key].v

\* ---------------------------------------------------------------------------
\* C37 as stated: whenever the settings file holds a non-empty derivedSecrets
\* map, the map is deriveAllSecrets of the passphrase the file holds.
\* ---------------------------------------------------------------------------
C37_Original ==
    (/\ activeCtx
     /\ disk.kind = "json"
     /\ disk.data["derivedSecrets"].st = "val"
     /\ DOMAIN disk.data["derivedSecrets"].v # {})
        => \E includeSite \in BOOLEAN :
              disk.data["derivedSecrets"].v
                  = deriveAllSecrets(disk.data["passphrase"].v, includeSite)

\* ---------------------------------------------------------------------------
\* C38 as stated: the key addSshKey returns is a key of the account whose
\* public-key material is the material that was passed in.
\* ---------------------------------------------------------------------------
C38_Original ==
    loc.fn = "key" =>
        \A n \in 1..Len(loc.log) :
            loc.log[n].result = "ok" =>
                \E k \in env.keys :
                    k.id = loc.log[n].value /\ Trim(k.public_key) = Trim(DeployPubKey)

\* ---------------------------------------------------------------------------
\* C39.  The verdicts of the steps (settled) are only ever appended to; a step
\* starts or restarts only while it has no verdict, so a step abandoned with
\* "continue" is never started again; from the head of the loop the next
\* selected step in catalog order starts, whatever the verdict of the one
\* before; and once every selected step has a verdict the only thing the run
\* does is the final save followed by its end with exit status 0.  A finished
\* run has started every selected step once, in catalog order.
\* ---------------------------------------------------------------------------
C39_AbandonedStepsStayAbandoned ==
    [][ /\ Len(settled') >= Len(settled)
        /\ \A k \in 1..Len(settled) : settled'[k] = settled[k]
        /\ (pc' = "step" /\ pc # "step") =>
              /\ pc \in {"loop", "again"}
              /\ Len(settled) = i - 1
              /\ running' = {SelectedSteps(selectedIds)[Len(settled) + 1]}
        /\ (pc = "loop" /\ i <= Len(SelectedSteps(selectedIds))) =>
              /\ pc' = "step"
              /\ i' = i
              /\ startLog' = Append(startLog, SelectedSteps(selectedIds)[i])
        /\ (pc = "loop" /\ i > Len(SelectedSteps(selectedIds))) =>
              /\ Len(settled) = Len(SelectedSteps(selectedIds))
              /\ startLog = SelectedSteps(selectedIds)
              /\ pc' = "exited"
              /\ exitCode' = 0
              /\ exitReason' = "finished"
              /\ FileHolds(disk', ctx) ]_vars

\* The first of two selected steps was abandoned, the second succeeded, and
\* the run has ended with status 0 after the final save.
C39_Witness ==
    /\ pc = "exited"
    /\ exitReason = "finished"
    /\ exitCode = 0
    /\ settled = <<"abandoned", "ok">>
    /\ startLog = SelectedSteps(selectedIds)
    /\ FileHolds(disk, ctx)

\* ---------------------------------------------------------------------------
\* C40 as stated: only a failure to fetch the zone raises an error: a call of
\* the DNS step that threw had issued no record write.
\* ---------------------------------------------------------------------------
C40_Original ==
    loc.fn = "dns" =>
        \A n \in 1..Len(loc.log) :
            loc.log[n].result = "threw" => loc.log[n].updates + loc.log[n].creates = 0

\* C40, amended: the DNS step raises when the zone cannot be fetched and when
\* the request of a record write fails without an answer, and in no other
\* case; a create or update the provider answers with a non-2xx status is
\* counted as rejected and the loop goes on with the next desired record, so
\* that a call that returned has handled every desired record, rejected
\* writes included, and inside the loop the records before the current one
\* have all been handled.
C40_RejectedWritesDoNotRaise ==
    loc.fn = "dns" =>
        /\ \A n \in 1..Len(loc.log) :
              LET e == loc.log[n]
              IN  /\ e.result = "threw" => e.last \in {"", "failed"}
                  /\ (e.result = "threw" /\ e.last = "") => e.updates + e.creates + e.skips = 0
                  /\ e.last = "failed" => e.result = "threw"
                  /\ e.result = "ok" =>
                        /\ e.updates + e.creates + e.skips = Len(e.desired)
                        /\ e.rejected <= e.updates + e.creates
        /\ pc = "dns.loop" =>
              /\ loc.cur.updates + loc.cur.creates + loc.cur.skips = loc.idx - 1
              /\ loc.cur.last \in {"", "ok", "refused"}

\* A call returned although the provider rejected one write, and it issued
\* other writes as well.
C40_Witness ==
    /\ loc.fn = "dns"
    /\ \E n \in 1..Len(loc.log) :
          /\ loc.log[n].result = "ok"
          /\ loc.log[n].rejected = 1
          /\ loc.log[n].updates + loc.log[n].creates > 1
          /\ loc.log[n].last = "ok"
====
